---- MODULE Spec2Model ----
(***************************************************************************)
(* Model of the repository audit agent (scripts/audit-agent):              *)
(*   rules_parser.py  - RulesParser.parse_index, parse_agents_md,          *)
(*                      generate_selection_report                          *)
(*   mece_analyzer.py - MECEAnalyzer.analyze and its helpers               *)
(*   core.py          - AuditAgent.run and its stages                      *)
(* Strings are TLC strings; paths, stems and percentages are computed      *)
(* character by character as the Python code (and pathlib) computes them.  *)
(***************************************************************************)
EXTENDS Integers, Sequences, FiniteSets, TLC

VARIABLES
    pc,            \* position of the running call
    config,        \* AuditConfig: depth, enable_citations
    fs,            \* set of marker paths that exist under repo_root
    index,         \* .claude/rules/index.json: whether it exists, and its JSON
    agents_md,     \* AGENTS.md: whether it exists, and what its text matches
    corpus,        \* rule documents under base/, languages/, frameworks/, cloud/
    archive,       \* the archive directory: whether it exists, and its *.md files
    context,       \* ProjectContext (self.context), None before detection
    rules_report,  \* local rules_report of run / return value of generate_selection_report
    mece_map,      \* local mece_map of run
    accuracy,      \* local accuracy of run
    disposition,   \* local disposition of run
    result         \* the returned AuditResult, None until returned

vars == <<pc, config, fs, index, agents_md, corpus, archive, context, rules_report,
          mece_map, accuracy, disposition, result>>

\* Python's None where a record (a dict, a dataclass) may stand instead; it
\* differs from every dict, the empty dict <<>> included.
None == [none |-> TRUE]
\* Python's None in a field that otherwise holds a str.
NoneStr == "None"
\* A JSON object is a record of the keys it has; {} is the empty record.
Has(d, key) == key \in DOMAIN d

(***************************************************************************)
(* Bounds of the model                                                     *)
(***************************************************************************)
\* Largest number of entries of an index, all categories together.
MaxIndexEntries == 3

(***************************************************************************)
(* String helpers: what str and pathlib do, on TLC strings                 *)
(***************************************************************************)
CharAt(s, i) == SubSeq(s, i, i)

Range(f) == {f[i] : i \in DOMAIN f}

RECURSIVE SumSeq(_)
SumSeq(s) == IF s = <<>> THEN 0 ELSE Head(s) + SumSeq(Tail(s))

\* str.rfind(ch) + 1: the 1-based position of the last ch in s, 0 when none.
RFind(s, ch) ==
    LET last(hits) == IF hits = {} THEN 0 ELSE CHOOSE i \in hits : \A j \in hits : j <= i
    IN  last({i \in 1..Len(s) : CharAt(s, i) = ch})

\* str.find(ch) + 1.
Find(s, ch) ==
    LET first(hits) == IF hits = {} THEN 0 ELSE CHOOSE i \in hits : \A j \in hits : i <= j
    IN  first({i \in 1..Len(s) : CharAt(s, i) = ch})

\* s.split(ch)
RECURSIVE Split(_, _)
Split(s, ch) ==
    LET cut(i) == IF i = 0 THEN <<s>>
                  ELSE <<SubSeq(s, 1, i - 1)>> \o Split(SubSeq(s, i + 1, Len(s)), ch)
    IN  cut(Find(s, ch))

\* sub in s
Contains(s, sub) ==
    \E i \in 1..(Len(s) - Len(sub) + 1) : SubSeq(s, i, i + Len(sub) - 1) = sub

Uppers == "ABCDEFGHIJKLMNOPQRSTUVWXYZ"
Lowers == "abcdefghijklmnopqrstuvwxyz"

\* The lower-case letter of each upper-case letter.
UpperToLower ==
    [c \in {CharAt(Uppers, i) : i \in 1..Len(Uppers)} |-> CharAt(Lowers, Find(Uppers, c))]

LowerChar(c) == IF c \in DOMAIN UpperToLower THEN UpperToLower[c] ELSE c

\* str.lower()
RECURSIVE Lower(_)
Lower(s) == IF s = "" THEN "" ELSE LowerChar(CharAt(s, 1)) \o Lower(Tail(s))

\* PurePath.parts of a relative POSIX path: empty and "." components vanish.
PathParts(p) == SelectSeq(Split(p, "/"), LAMBDA c : c # "" /\ c # ".")

\* PurePath.name
PathName(p) ==
    LET last(parts) == IF parts = <<>> THEN "" ELSE parts[Len(parts)]
    IN  last(PathParts(p))

\* PurePath.stem: the name without its last suffix; a leading or a trailing
\* dot starts no suffix.
Stem(p) ==
    LET cut(name, i) == IF 1 < i /\ i < Len(name) THEN SubSeq(name, 1, i - 1) ELSE name
        stem(name)   == cut(name, RFind(name, "."))
    IN  stem(PathName(p))

(***************************************************************************)
(* rules_parser.py                                                         *)
(***************************************************************************)
\* RuleMetadata.__post_init__: the default maturity range.
DefaultMaturity == <<"mvp", "pre-production", "production">>

\* _extract_topics_from_path: topic_keywords, in dict order.
TopicKeywords == <<
    [topic |-> "security",    keywords |-> {"security", "auth", "jwt", "oauth"}],
    [topic |-> "testing",     keywords |-> {"testing", "test", "pytest", "jest"}],
    [topic |-> "quality",     keywords |-> {"quality", "standards", "style"}],
    [topic |-> "performance", keywords |-> {"performance", "optimization", "cache"}],
    [topic |-> "api",         keywords |-> {"api", "rest", "graphql", "endpoint"}],
    [topic |-> "database",    keywords |-> {"database", "db", "sql", "query"}],
    [topic |-> "deployment",  keywords |-> {"deployment", "deploy", "ci", "cd"}] >>

\* RulesParser._extract_topics_from_path
ExtractTopicsFromPath(rule_path) ==
    LET topics(idx) == [j \in 1..Len(idx) |-> TopicKeywords[idx[j]].topic]
        matched(filename_lower) ==
            LET hit(i) == \E k \in TopicKeywords[i].keywords : Contains(filename_lower, k)
            IN  topics(SelectSeq([i \in 1..Len(TopicKeywords) |-> i], hit))
    IN  matched(Lower(Stem(rule_path)))

\* rule.get("path") or rule.get("file", "")
RulePath(rule) ==
    IF Has(rule, "path") /\ rule.path # "" THEN rule.path
    ELSE IF Has(rule, "file") THEN rule.file ELSE ""

\* Default estimated token cost of each category.
BaseTokens == 800
LanguageTokens == 1000
FrameworkTokens == 1200
CloudTokens == 1400

\* One RuleMetadata(...) construction of parse_index.
RuleMetadata(rule, category, subkey, default_tokens) ==
    LET record(rule_path) ==
            [name             |-> rule.name,
             path             |-> rule_path,
             category         |-> category,
             language         |-> IF category = "language" THEN subkey ELSE NoneStr,
             framework        |-> IF category = "framework" THEN subkey ELSE NoneStr,
             cloud_provider   |-> IF category = "cloud" THEN subkey ELSE NoneStr,
             topics           |-> ExtractTopicsFromPath(rule_path),
             maturity         |-> DefaultMaturity,
             estimated_tokens |-> IF Has(rule, "estimatedTokens") THEN rule.estimatedTokens
                                  ELSE default_tokens]
    IN  record(RulePath(rule))

\* d.get(key, default)
Get(d, key, default) == IF Has(d, key) THEN d[key] ELSE default

\* The records of one sub-keyed category: for key, rules in groups.items(),
\* for rule in rules.
RECURSIVE ParseGroups(_, _, _)
ParseGroups(groups, category, default_tokens) ==
    IF groups = <<>> THEN <<>>
    ELSE LET g == Head(groups)
         IN  [i \in 1..Len(g.rules) |->
                 RuleMetadata(g.rules[i], category, g.key, default_tokens)]
             \o ParseGroups(Tail(groups), category, default_tokens)

\* Every entry of the index, in the order parse_index visits them.
RECURSIVE GroupEntries(_)
GroupEntries(groups) ==
    IF groups = <<>> THEN <<>> ELSE Head(groups).rules \o GroupEntries(Tail(groups))

\* index.get("rules", {})
IndexRules(json) == Get(json, "rules", <<>>)

IndexEntries(json) ==
    LET r == IndexRules(json)
    IN  Get(r, "base", <<>>) \o GroupEntries(Get(r, "languages", <<>>))
        \o GroupEntries(Get(r, "frameworks", <<>>))
        \o GroupEntries(Get(r, "cloud", <<>>))

EmptyRules == [base |-> <<>>, language |-> <<>>, framework |-> <<>>, cloud |-> <<>>]

\* rule["name"] of an entry without a name raises KeyError.
KeyError == [raised |-> "KeyError"]

\* parse_index past the existence test: the four buckets filled from the JSON
\* of the file, or KeyError raised.
ParseIndexFile(json) ==
    IF \E e \in Range(IndexEntries(json)) : ~Has(e, "name")
    THEN KeyError
    ELSE LET r == IndexRules(json)
             b == Get(r, "base", <<>>)
         IN  [base      |-> [i \in 1..Len(b) |->
                                RuleMetadata(b[i], "base", NoneStr, BaseTokens)],
              language  |-> ParseGroups(Get(r, "languages", <<>>), "language",
                                        LanguageTokens),
              framework |-> ParseGroups(Get(r, "frameworks", <<>>), "framework",
                                        FrameworkTokens),
              cloud     |-> ParseGroups(Get(r, "cloud", <<>>), "cloud",
                                        CloudTokens)]

\* Variant of ParseIndex for C10: an absent index file raises.
ParseIndexAbsentRaises(idx) ==
    IF ~idx.exists THEN KeyError ELSE ParseIndexFile(idx.json)

\* RulesParser.parse_index: the four buckets, or KeyError raised. idx is the
\* index file: whether it exists and the JSON it holds.
ParseIndex(idx) ==
    IF ~idx.exists THEN EmptyRules ELSE ParseIndexFile(idx.json)

\* generate_selection_report: critical_base
CriticalBase == {"code-quality", "security-principles", "git-workflow"}

ScoreCritical == 100
ScoreLanguage == 90
ScoreFramework == 90
ScoreCloud == 85

\* Variant of IsSelected for C5: no base record is selected.
IsSelectedNoBase(rule, languages, frameworks, cloud) ==
    CASE rule.category = "base"      -> FALSE
      [] rule.category = "language"  -> rule.language \in Range(languages)
      [] rule.category = "framework" -> rule.framework \in Range(frameworks)
      [] rule.category = "cloud"     -> rule.cloud_provider \in Range(cloud)

\* Variant of IsSelected for C6: every language record is selected.
IsSelectedAnyLanguage(rule, languages, frameworks, cloud) ==
    CASE rule.category = "base"      -> Stem(rule.path) \in CriticalBase
      [] rule.category = "language"  -> TRUE
      [] rule.category = "framework" -> rule.framework \in Range(frameworks)
      [] rule.category = "cloud"     -> rule.cloud_provider \in Range(cloud)

\* Variant of IsSelected for C8: a framework record is selected when no
\* language is detected, or when its framework is.
IsSelectedWithoutLanguage(rule, languages, frameworks, cloud) ==
    CASE rule.category = "base"      -> Stem(rule.path) \in CriticalBase
      [] rule.category = "language"  -> rule.language \in Range(languages)
      [] rule.category = "framework" -> languages = <<>>
                                            \/ rule.framework \in Range(frameworks)
      [] rule.category = "cloud"     -> rule.cloud_provider \in Range(cloud)

\* The four selection loops: whether a record is appended to selected_rules.
IsSelected(rule, languages, frameworks, cloud) ==
    CASE rule.category = "base"      -> Stem(rule.path) \in CriticalBase
      [] rule.category = "language"  -> rule.language \in Range(languages)
      [] rule.category = "framework" -> rule.framework \in Range(frameworks)
      [] rule.category = "cloud"     -> rule.cloud_provider \in Range(cloud)

\* The selection_reasoning entry appended with a selected record.
Reasoning(rule) ==
    CASE rule.category = "base" ->
             [rule |-> rule.name, reason |-> "Critical base rule",
              score |-> ScoreCritical]
      [] rule.category = "language" ->
             [rule |-> rule.name,
              reason |-> "Matches project language: " \o rule.language,
              score |-> ScoreLanguage]
      [] rule.category = "framework" ->
             [rule |-> rule.name,
              reason |-> "Matches project framework: " \o rule.framework,
              score |-> ScoreFramework]
      [] rule.category = "cloud" ->
             [rule |-> rule.name,
              reason |-> "Matches cloud provider: " \o rule.cloud_provider,
              score |-> ScoreCloud]

\* selected_rules after the four loops and a second run of the base loop.
SelectedRulesBaseTwice(all_rules, languages, frameworks, cloud) ==
    SelectSeq(all_rules.base \o all_rules.language \o all_rules.framework
                  \o all_rules.cloud \o all_rules.base,
              LAMBDA r : IsSelected(r, languages, frameworks, cloud))

\* selected_rules after the four loops: base, language, framework, cloud.
SelectedRules(all_rules, languages, frameworks, cloud) ==
    SelectSeq(all_rules.base \o all_rules.language \o all_rules.framework
                  \o all_rules.cloud,
              LAMBDA r : IsSelected(r, languages, frameworks, cloud))

\* Nearest integer to n / d (d > 0), halves to the even neighbour, as the
\* format specification .1f rounds. A half needs 16 to divide d.
RoundDiv(n, d) ==
    LET q == n \div d
        r == n % d
    IN  IF 2 * r < d THEN q
        ELSE IF 2 * r > d THEN q + 1
        ELSE IF q % 2 = 0 THEN q ELSE q + 1

\* f"{x:.1f}%" of a value given in tenths.
FormatPct1(tenths) == ToString(tenths \div 10) \o "." \o ToString(tenths % 10) \o "%"

\* Variant of SelectionEfficiency for C7: the ratio is not scaled to a
\* percentage.
SelectionEfficiencyUnscaled(total_selected, total_available) ==
    IF total_available > 0
    THEN FormatPct1(RoundDiv(10 * total_selected, total_available))
    ELSE "0%"

\* selection_efficiency of the report.
SelectionEfficiency(total_selected, total_available) ==
    IF total_available > 0
    THEN FormatPct1(RoundDiv(1000 * total_selected, total_available))
    ELSE "0%"

\* Variant of TotalAvailable for C9: the cloud bucket is not counted.
TotalAvailableWithoutCloud(all_rules) ==
    Len(all_rules.base) + Len(all_rules.language) + Len(all_rules.framework)

\* sum(len(rules) for rules in all_rules.values())
TotalAvailable(all_rules) ==
    Len(all_rules.base) + Len(all_rules.language) + Len(all_rules.framework)
        + Len(all_rules.cloud)

CountCategory(selected, category) ==
    Len(SelectSeq(selected, LAMBDA r : r.category = category))

\* RulesParser.generate_selection_report, given the parsed index.
SelectionReport(all_rules, languages, frameworks, cloud, maturity) ==
    LET report(selected, total_available) ==
            [total_rules_available  |-> total_available,
             total_rules_selected   |-> Len(selected),
             total_estimated_tokens |->
                 SumSeq([i \in 1..Len(selected) |-> selected[i].estimated_tokens]),
             selection_efficiency   |->
                 SelectionEfficiency(Len(selected), total_available),
             selected_rules         |-> selected,
             selection_reasoning    |->
                 [i \in 1..Len(selected) |-> Reasoning(selected[i])],
             breakdown              |->
                 [base      |-> CountCategory(selected, "base"),
                  language  |-> CountCategory(selected, "language"),
                  framework |-> CountCategory(selected, "framework"),
                  cloud     |-> CountCategory(selected, "cloud")],
             project_context        |->
                 [languages |-> languages, frameworks |-> frameworks,
                  cloud_providers |-> cloud, maturity |-> maturity]]
    IN  report(SelectedRules(all_rules, languages, frameworks, cloud),
               TotalAvailable(all_rules))

\* generate_selection_report with its call of parse_index: the report, or
\* KeyError propagated.
GenerateSelectionReport(idx, languages, frameworks, cloud, maturity) ==
    LET report(all_rules) ==
            IF all_rules = KeyError THEN KeyError
            ELSE SelectionReport(all_rules, languages, frameworks, cloud, maturity)
    IN  report(ParseIndex(idx))

\* RulesParser.parse_agents_md: AGENTS.md is modelled by the matches of the two
\* regular expressions in it, the links [title](path.md) and the fenced code
\* blocks with a language tag. languages_covered is list(set(...)): a set.
ParseAgentsMd(agents) ==
    IF ~agents.exists
    THEN [rules |-> <<>>, patterns |-> <<>>, total_references |-> 0,
          languages_covered |-> {}]
    ELSE [rules |-> agents.links,
          patterns |-> agents.code_blocks,
          total_references |-> Len(agents.links),
          languages_covered |->
              {agents.code_blocks[i].language : i \in DOMAIN agents.code_blocks}]

(***************************************************************************)
(* mece_analyzer.py                                                        *)
(***************************************************************************)
\* MECEAnalyzer.__init__: expected_topics["base"]
ExpectedBaseTopics == <<"code-quality", "security", "testing", "git", "architecture",
                        "refactoring", "documentation", "error-handling", "logging">>

\* MECEAnalyzer.__init__: expected_topics["language"], in dict order
ExpectedLanguageTopics == <<
    [key |-> "python",     topics |-> <<"coding-standards", "testing", "async", "packaging">>],
    [key |-> "typescript", topics |-> <<"coding-standards", "testing", "types", "async">>],
    [key |-> "go",         topics |-> <<"coding-standards", "testing", "concurrency", "error-handling">>],
    [key |-> "java",       topics |-> <<"coding-standards", "testing", "spring", "design-patterns">>],
    [key |-> "rust",       topics |-> <<"coding-standards", "testing", "ownership", "error-handling">>] >>

\* MECEAnalyzer.__init__: expected_topics["framework"]
ExpectedFrameworkTopics == <<
    [key |-> "fastapi", topics |-> <<"routing", "async", "testing", "validation", "auth">>],
    [key |-> "django",  topics |-> <<"models", "views", "testing", "authentication", "admin">>],
    [key |-> "react",   topics |-> <<"components", "hooks", "testing", "state", "routing">>],
    [key |-> "nextjs",  topics |-> <<"routing", "ssr", "api-routes", "testing", "optimization">>] >>

\* MECEAnalyzer.__init__: expected_topics["cloud"]
ExpectedCloudTopics == <<
    [key |-> "aws",    topics |-> <<"iam", "security", "deployment", "monitoring", "cost-optimization">>],
    [key |-> "vercel", topics |-> <<"deployment", "environment", "performance", "preview">>] >>

\* _extract_keywords: the alternatives of the eight keyword_patterns.
KeywordVocabulary ==
    {"async", "await", "promise", "test", "testing", "pytest", "jest",
     "security", "authentication", "authorization", "api", "endpoint", "route",
     "handler", "database", "query", "sql", "orm", "deployment", "ci", "cd",
     "docker", "error", "exception", "logging", "performance", "optimization",
     "cache"}

WordChars == Uppers \o Lowers \o "0123456789_"
IsWordChar(c) == Find(WordChars, c) # 0
IsSpace(c) == c \in {" ", "\t"}

\* The maximal runs of word characters of s: what lies between two \b.
RECURSIVE WordsOf(_, _)
WordsOf(s, cur) ==
    IF s = "" THEN (IF cur = "" THEN <<>> ELSE <<cur>>)
    ELSE IF IsWordChar(CharAt(s, 1)) THEN WordsOf(Tail(s), cur \o CharAt(s, 1))
    ELSE (IF cur = "" THEN <<>> ELSE <<cur>>) \o WordsOf(Tail(s), "")

RECURSIVE HeadingWords(_)
HeadingWords(headings) ==
    IF headings = <<>> THEN <<>>
    ELSE WordsOf(Head(headings), "") \o HeadingWords(Tail(headings))

\* MECEAnalyzer._extract_keywords. A document is modelled by its heading lines
\* and by the words of its other text outside fenced code blocks; a pattern
\* \b(w1|w2|..)\b, IGNORECASE, matches exactly the words that are w1, w2, ..
ExtractKeywords(file) ==
    {Lower(w) : w \in Range(HeadingWords(file.headings)) \cup Range(file.text)}
        \cap KeywordVocabulary

\* str.strip()
RECURSIVE LStrip(_)
LStrip(s) == IF s # "" /\ IsSpace(CharAt(s, 1)) THEN LStrip(Tail(s)) ELSE s
RECURSIVE RStrip(_)
RStrip(s) ==
    IF s # "" /\ IsSpace(CharAt(s, Len(s))) THEN RStrip(SubSeq(s, 1, Len(s) - 1)) ELSE s
Strip(s) == LStrip(RStrip(s))

\* re.sub(r'[^\w\s-]', '', s)
RECURSIVE StripPunctuation(_)
StripPunctuation(s) ==
    IF s = "" THEN ""
    ELSE LET c == CharAt(s, 1)
         IN  (IF IsWordChar(c) \/ IsSpace(c) \/ c = "-" THEN c ELSE "")
             \o StripPunctuation(Tail(s))

\* s.replace('-', ' ')
RECURSIVE HyphensToSpaces(_)
HyphensToSpaces(s) ==
    IF s = "" THEN ""
    ELSE (IF CharAt(s, 1) = "-" THEN " " ELSE CharAt(s, 1)) \o HyphensToSpaces(Tail(s))

\* MECEAnalyzer._extract_topics
ExtractTopics(filename, headings) ==
    {HyphensToSpaces(Lower(filename))}
        \cup {StripPunctuation(Strip(Lower(headings[i]))) : i \in DOMAIN headings}

\* MECEAnalyzer._analyze_file of a readable file dir/name. code_blocks and
\* word_count, which nothing reads afterwards, are carried as given.
AnalyzeFile(file, dir, category) ==
    [file_path   |-> dir \o "/" \o file.name,
     category    |-> category,
     topics      |-> ExtractTopics(Stem(file.name), file.headings),
     keywords    |-> ExtractKeywords(file),
     headings    |-> file.headings,
     code_blocks |-> file.code_blocks,
     word_count  |-> file.word_count]

\* The *.md files of the sub-folders of one category directory, in the order
\* iterdir and glob yield them: pairs of a file and its folder.
RECURSIVE FolderFiles(_)
FolderFiles(folders) ==
    IF folders = <<>> THEN <<>>
    ELSE LET f == Head(folders)
         IN  (IF f.is_dir THEN [i \in 1..Len(f.files) |->
                                   [file |-> f.files[i], folder |-> f.name]]
              ELSE <<>>)
             \o FolderFiles(Tail(folders))

\* The files _analyze_all_files opens, in order, each with dir and category.
CorpusFiles(c) ==
    LET sub(d, top, cat) ==
            IF d.exists
            THEN LET ff == FolderFiles(d.folders)
                 IN  [i \in 1..Len(ff) |->
                         [file |-> ff[i].file, dir |-> top \o "/" \o ff[i].folder,
                          category |-> cat \o "/" \o ff[i].folder]]
            ELSE <<>>
    IN  (IF c.base.exists
         THEN [i \in 1..Len(c.base.files) |->
                  [file |-> c.base.files[i], dir |-> "base", category |-> "base"]]
         ELSE <<>>)
        \o sub(c.languages, "languages", "language")
        \o sub(c.frameworks, "frameworks", "framework")
        \o sub(c.cloud, "cloud", "cloud")

\* open(...) or f.read() of a file that cannot be read raises.
ReadError == [raised |-> "ReadError"]
\* A division by max(len(..), len(..)) = 0 raises.
ZeroDivisionError == [raised |-> "ZeroDivisionError"]

\* Whether every file _analyze_all_files opens can be read.
CorpusReadable(c) == \A f \in Range(CorpusFiles(c)) : f.file.readable

\* MECEAnalyzer._analyze_all_files, when every file can be read.
AnalyzeAllFiles(c) ==
    LET analyses(files) ==
            [i \in 1..Len(files) |->
                AnalyzeFile(files[i].file, files[i].dir, files[i].category)]
    IN  analyses(CorpusFiles(c))

Max(a, b) == IF a >= b THEN a ELSE b

\* _find_overlaps without the category test of its inner loop.
ComparedPairsAnyCategory(analyses) ==
    {p \in (DOMAIN analyses) \X (DOMAIN analyses) : p[1] < p[2]}

\* _find_overlaps: the pairs the two loops reach past the category test.
ComparedPairs(analyses) ==
    {p \in (DOMAIN analyses) \X (DOMAIN analyses) :
        p[1] < p[2] /\ analyses[p[1]].category = analyses[p[2]].category}

CommonKeywords(a1, a2) == a1.keywords \cap a2.keywords
CommonTopics(a1, a2) == a1.topics \cap a2.topics

\* The pre-filter without its test of the keywords.
PreFilterTopicsOnly(a1, a2) == Cardinality(CommonTopics(a1, a2)) > 2

\* if len(common_keywords) > 3 or len(common_topics) > 2
PreFilter(a1, a2) ==
    Cardinality(CommonKeywords(a1, a2)) > 3 \/ Cardinality(CommonTopics(a1, a2)) > 2

\* The division by max(len(a1.keywords), len(a2.keywords)) that raises.
OverlapDivides(a1, a2) ==
    Max(Cardinality(a1.keywords), Cardinality(a2.keywords)) > 0
        /\ Max(Cardinality(a1.topics), Cardinality(a2.topics)) > 0

\* overlap_score = (keyword_overlap + topic_overlap) / 2 as the fraction
\* num / den, for a pair whose divisions are defined, with the two quotients
\* it is the mean of.
OverlapScore(a1, a2) ==
    LET ck == Cardinality(CommonKeywords(a1, a2))
        ct == Cardinality(CommonTopics(a1, a2))
        mk == Max(Cardinality(a1.keywords), Cardinality(a2.keywords))
        mt == Max(Cardinality(a1.topics), Cardinality(a2.topics))
    IN  [num |-> ck * mt + ct * mk, den |-> 2 * mk * mt,
         keyword_overlap |-> <<ck, mk>>, topic_overlap |-> <<ct, mt>>]

\* Whether the quotients of a score are those of t = <<a, b, c, d>>:
\* keyword_overlap = a / b and topic_overlap = c / d.
SameQuotients(score, t) ==
    /\ score.keyword_overlap[1] * t[2] = t[1] * score.keyword_overlap[2]
    /\ score.topic_overlap[1] * t[4] = t[3] * score.topic_overlap[2]

\* The quotients a / b and c / d whose mean is 3 / 10 and whose mean in
\* double arithmetic, (a / b + c / d) / 2, is the double above 0.3: for at
\* most 28 keywords and 12 topics.
DoubleMeanAboveThreshold == {<<1, 5, 2, 5>>, <<2, 5, 1, 5>>}

\* The test of the score with 0.2 for 0.3.
ExceedsOneFifth(score) == 10 * score.num > 2 * score.den

\* if overlap_score > 0.3, the score computed in doubles. Away from 3 / 10 the
\* double and the fraction compare alike.
ExceedsThreshold(score) ==
    \/ 10 * score.num > 3 * score.den
    \/ /\ 10 * score.num = 3 * score.den
       /\ \E t \in DoubleMeanAboveThreshold : SameQuotients(score, t)

\* The quotients a / b and c / d whose mean is at least 3 / 10 and halfway
\* between two hundredths, and whose mean in double arithmetic round(.., 2)
\* takes to the upper hundredth: for at most 28 keywords and 12 topics.
DoubleMeanRoundedUp ==
    {<<0, 1, 3, 4>>, <<1, 28, 5, 7>>, <<1, 25, 3, 4>>, <<1, 20, 3, 5>>,
     <<1, 20, 7, 10>>, <<1, 20, 4, 5>>, <<1, 20, 9, 10>>, <<1, 20, 1, 1>>,
     <<1, 15, 7, 12>>, <<1, 12, 2, 3>>, <<1, 8, 5, 8>>, <<2, 15, 11, 12>>,
     <<3, 20, 1, 2>>, <<3, 20, 3, 5>>, <<3, 20, 4, 5>>, <<3, 20, 9, 10>>,
     <<4, 25, 3, 4>>, <<1, 6, 7, 12>>, <<5, 28, 4, 7>>, <<1, 4, 2, 5>>,
     <<1, 4, 1, 2>>, <<1, 4, 4, 5>>, <<4, 15, 7, 12>>, <<7, 25, 3, 4>>,
     <<3, 10, 3, 4>>, <<8, 25, 3, 4>>, <<9, 28, 3, 7>>, <<1, 3, 5, 12>>,
     <<7, 20, 2, 5>>, <<7, 20, 1, 1>>, <<3, 8, 3, 8>>, <<2, 5, 1, 4>>,
     <<5, 12, 1, 3>>, <<9, 20, 1, 5>>, <<9, 20, 3, 10>>, <<9, 20, 2, 5>>,
     <<9, 20, 3, 5>>, <<9, 20, 9, 10>>, <<13, 28, 2, 7>>, <<7, 15, 7, 12>>,
     <<1, 2, 1, 4>>, <<13, 25, 1, 4>>, <<13, 25, 3, 4>>, <<11, 20, 1, 10>>,
     <<11, 20, 1, 5>>, <<11, 20, 3, 10>>, <<11, 20, 2, 5>>, <<11, 20, 1, 2>>,
     <<11, 20, 4, 5>>, <<11, 20, 9, 10>>, <<11, 20, 1, 1>>, <<14, 25, 1, 4>>,
     <<14, 25, 3, 4>>, <<7, 12, 1, 6>>, <<3, 5, 3, 4>>, <<17, 28, 1, 7>>,
     <<5, 8, 1, 8>>, <<16, 25, 1, 4>>, <<16, 25, 3, 4>>, <<13, 20, 0, 1>>,
     <<13, 20, 1, 10>>, <<13, 20, 1, 5>>, <<13, 20, 2, 5>>, <<13, 20, 7, 10>>,
     <<13, 20, 4, 5>>, <<13, 20, 9, 10>>, <<2, 3, 1, 12>>, <<17, 25, 1, 4>>,
     <<17, 25, 3, 4>>, <<3, 4, 0, 1>>, <<3, 4, 3, 10>>, <<3, 4, 3, 5>>,
     <<3, 4, 4, 5>>, <<3, 4, 1, 1>>, <<19, 25, 1, 4>>, <<19, 25, 3, 4>>,
     <<4, 5, 1, 4>>, <<4, 5, 3, 4>>, <<5, 6, 11, 12>>, <<17, 20, 1, 5>>,
     <<17, 20, 1, 2>>, <<17, 20, 9, 10>>, <<17, 20, 1, 1>>, <<13, 15, 1, 12>>,
     <<13, 15, 7, 12>>, <<7, 8, 7, 8>>, <<25, 28, 6, 7>>, <<11, 12, 5, 6>>,
     <<14, 15, 5, 12>>, <<14, 15, 11, 12>>, <<19, 20, 1, 10>>,
     <<19, 20, 2, 5>>, <<19, 20, 4, 5>>, <<19, 20, 9, 10>>, <<1, 1, 3, 4>>}

\* round(overlap_score, 2) in hundredths: the nearest hundredth, and for a
\* score halfway between two the one the double lies nearer to.
RoundScore(score) ==
    IF (200 * score.num) % score.den = 0 /\ ((200 * score.num) \div score.den) % 2 = 1
    THEN (100 * score.num) \div score.den
             + (IF \E t \in DoubleMeanRoundedUp : SameQuotients(score, t)
                THEN 1 ELSE 0)
    ELSE RoundDiv(100 * score.num, score.den)

\* The OverlapReport of a reported pair; overlap_score is round(score, 2),
\* held in hundredths. common_keywords and common_topics are held as the sets
\* they list, before sorted(..)[:10] and sorted(..)[:5] cut them.
OverlapReport(a1, a2) ==
    [file1 |-> a1.file_path,
     file2 |-> a2.file_path,
     overlap_score |-> RoundScore(OverlapScore(a1, a2)),
     common_keywords |-> CommonKeywords(a1, a2),
     common_topics |-> CommonTopics(a1, a2)]

\* Whether _find_overlaps reaches a division by zero.
OverlapsRaise(analyses) ==
    \E p \in ComparedPairs(analyses) :
        PreFilter(analyses[p[1]], analyses[p[2]])
            /\ ~OverlapDivides(analyses[p[1]], analyses[p[2]])

\* The pairs (i, j) in the order the two loops visit them.
PairOrder(n) ==
    LET k(i, j) == (i - 1) * n + j
        S == {p \in (1..n) \X (1..n) : p[1] < p[2]}
        RECURSIVE Sorted(_)
        Sorted(T) == IF T = {} THEN <<>>
                     ELSE LET m == CHOOSE x \in T : \A y \in T : k(x[1], x[2]) <= k(y[1], y[2])
                          IN  <<m>> \o Sorted(T \ {m})
    IN  Sorted(S)

\* The findings left in the order the loops appended them.
Unsorted(reports) == reports

\* list.sort(key=overlap_score, reverse=True): stable, descending.
RECURSIVE SortByScoreDesc(_)
SortByScoreDesc(reports) ==
    IF reports = <<>> THEN <<>>
    ELSE LET best == CHOOSE i \in DOMAIN reports :
                         /\ \A j \in DOMAIN reports :
                                reports[j].overlap_score <= reports[i].overlap_score
                         /\ \A j \in 1..(i - 1) :
                                reports[j].overlap_score < reports[i].overlap_score
         IN  <<reports[best]>>
             \o SortByScoreDesc([j \in 1..(Len(reports) - 1) |->
                                    IF j < best THEN reports[j] ELSE reports[j + 1]])

\* MECEAnalyzer._find_overlaps, when no division raises.
FindOverlaps(analyses) ==
    LET reports(kept) ==
            [i \in 1..Len(kept) |->
                OverlapReport(analyses[kept[i][1]], analyses[kept[i][2]])]
        keep(p) ==
            /\ p \in ComparedPairs(analyses)
            /\ PreFilter(analyses[p[1]], analyses[p[2]])
            /\ ExceedsThreshold(OverlapScore(analyses[p[1]], analyses[p[2]]))
    IN  SortByScoreDesc(reports(SelectSeq(PairOrder(Len(analyses)), keep)))

\* sep.join(seq)
RECURSIVE Join(_, _)
Join(seq, sep) ==
    IF seq = <<>> THEN ""
    ELSE IF Len(seq) = 1 THEN seq[1]
    ELSE seq[1] \o sep \o Join(Tail(seq), sep)

\* The orders in which iterating a set may yield its members.
RECURSIVE Orders(_)
Orders(S) ==
    IF S = {} THEN {<<>>}
    ELSE UNION {{<<x>> \o rest : rest \in Orders(S \ {x})} : x \in S}

\* The union of the topic sets of the analyses of one category.
TopicsOf(analyses, category) ==
    UNION {analyses[i].topics : i \in {j \in DOMAIN analyses : analyses[j].category = category}}

\* found = expected.replace('-', ' ') in ' '.join(topics), the set iterated in
\* the given order.
TopicFound(expected, ordered_topics) ==
    Contains(Join(ordered_topics, " "), HyphensToSpaces(expected))

\* _find_gaps, the base loop.
BaseGaps(base_order) ==
    LET gaps(missing) ==
            [i \in 1..Len(missing) |->
                [category |-> "base",
                 missing_topics |-> <<missing[i]>>,
                 recommendation |-> "Create base/" \o missing[i] \o ".md to cover "
                     \o HyphensToSpaces(missing[i]) \o " best practices"]]
    IN  gaps(SelectSeq(ExpectedBaseTopics, LAMBDA e : ~TopicFound(e, base_order)))

\* The language loop without the branch for a language that has no document.
LanguageGapsPerTopic(analyses, entry, lang_order) ==
    LET gaps(missing) ==
            [i \in 1..Len(missing) |->
                [category |-> "language/" \o entry.key,
                 missing_topics |-> <<missing[i]>>,
                 recommendation |-> "Add languages/" \o entry.key \o "/"
                     \o missing[i] \o ".md"]]
    IN  gaps(SelectSeq(entry.topics,
                       LAMBDA e : ~TopicFound(e, lang_order[entry.key])))

\* _find_gaps, the language loop for one language of the table.
LanguageGaps(analyses, entry, lang_order) ==
    IF ~\E i \in DOMAIN analyses : analyses[i].category = "language/" \o entry.key
    THEN << [category |-> "language/" \o entry.key,
             missing_topics |-> entry.topics,
             recommendation |-> "Add " \o entry.key
                 \o " language support with rules covering "
                 \o Join(entry.topics, ", ")] >>
    ELSE LET gaps(missing) ==
                 [i \in 1..Len(missing) |->
                     [category |-> "language/" \o entry.key,
                      missing_topics |-> <<missing[i]>>,
                      recommendation |-> "Add languages/" \o entry.key \o "/"
                          \o missing[i] \o ".md"]]
         IN  gaps(SelectSeq(entry.topics,
                            LAMBDA e : ~TopicFound(e, lang_order[entry.key])))

\* The ways the topic sets of the languages of the table may be iterated, one
\* order for each language.
LanguageOrders(analyses) ==
    LET O(k) == Orders(TopicsOf(analyses, "language/" \o k))
    IN  {[python |-> a, typescript |-> b, go |-> c, java |-> d, rust |-> e] :
            a \in O("python"), b \in O("typescript"), c \in O("go"),
            d \in O("java"), e \in O("rust")}

\* MECEAnalyzer._find_gaps: base, then each language of the table. The
\* framework and cloud tables are never read.
RECURSIVE AllLanguageGaps(_, _, _)
AllLanguageGaps(analyses, entries, lang_order) ==
    IF entries = <<>> THEN <<>>
    ELSE LanguageGaps(analyses, Head(entries), lang_order)
         \o AllLanguageGaps(analyses, Tail(entries), lang_order)

FindGaps(analyses, base_order, lang_order) ==
    BaseGaps(base_order) \o AllLanguageGaps(analyses, ExpectedLanguageTopics, lang_order)

OverlapWeight == 2
GapWeight == 3
ExcellentFrom == 90
GoodFrom == 70
FairFrom == 50

\* _calculate_mece_score without max(0, ..).
CalculateMeceScoreUnclamped(overlaps, gaps, total_files) ==
    LET band(score) ==
            IF score >= ExcellentFrom THEN ToString(score) \o "% - Excellent"
            ELSE IF score >= GoodFrom THEN ToString(score) \o "% - Good"
            ELSE IF score >= FairFrom THEN ToString(score) \o "% - Fair"
            ELSE ToString(score) \o "% - Needs Improvement"
        penalty == (overlaps * OverlapWeight) + (gaps * GapWeight)
    IN  band(100 - penalty)

\* _calculate_mece_score with a gap weighing what an overlap weighs.
CalculateMeceScoreEqualWeights(overlaps, gaps, total_files) ==
    LET band(score) ==
            IF score >= ExcellentFrom THEN ToString(score) \o "% - Excellent"
            ELSE IF score >= GoodFrom THEN ToString(score) \o "% - Good"
            ELSE IF score >= FairFrom THEN ToString(score) \o "% - Fair"
            ELSE ToString(score) \o "% - Needs Improvement"
        penalty == (overlaps + gaps) * OverlapWeight
    IN  band(Max(0, 100 - penalty))

\* MECEAnalyzer._calculate_mece_score
CalculateMeceScore(overlaps, gaps, total_files) ==
    LET band(score) ==
            IF score >= ExcellentFrom THEN ToString(score) \o "% - Excellent"
            ELSE IF score >= GoodFrom THEN ToString(score) \o "% - Good"
            ELSE IF score >= FairFrom THEN ToString(score) \o "% - Fair"
            ELSE ToString(score) \o "% - Needs Improvement"
        penalty == (overlaps * OverlapWeight) + (gaps * GapWeight)
    IN  band(Max(0, 100 - penalty))

\* category.split("/")[0]
BaseCategory(category) == Split(category, "/")[1]

\* overlaps[:10]
TopOverlaps == 10

\* MECEAnalyzer._generate_summary; by_category has the categories that occur.
GenerateSummary(analyses, overlaps, gaps) ==
    LET cats == {BaseCategory(analyses[i].category) : i \in DOMAIN analyses}
    IN  [total_files |-> Len(analyses),
         by_category |-> [c \in cats |->
             Cardinality({i \in DOMAIN analyses : BaseCategory(analyses[i].category) = c})],
         high_overlap_count |->
             Len(SelectSeq(overlaps, LAMBDA o : o.overlap_score > 50)),
         critical_gaps |-> Len(SelectSeq(gaps, LAMBDA g : g.category = "base")),
         mece_score |-> CalculateMeceScore(Len(overlaps), Len(gaps), Len(analyses))]

\* overlaps[:10]
\* The dict MECEAnalyzer.analyze returns, from what its three calls return.
AnalyzeReport(analyses, overlaps, gaps) ==
    [files_analyzed  |-> Len(analyses),
     total_overlaps  |-> Len(overlaps),
     total_gaps      |-> Len(gaps),
     overlap_reports |-> SubSeq(overlaps, 1, IF Len(overlaps) < TopOverlaps
                                             THEN Len(overlaps) ELSE TopOverlaps),
     gap_reports     |-> gaps,
     summary         |-> GenerateSummary(analyses, overlaps, gaps)]

\* The reports MECEAnalyzer.analyze may return for a corpus it can read and
\* compare, one for each way of iterating the topic sets.
AnalyzeOutcomes(analyses) ==
    LET overlaps == FindOverlaps(analyses)
    IN  {AnalyzeReport(analyses, overlaps, FindGaps(analyses, base_order, lang_order)) :
            base_order \in Orders(TopicsOf(analyses, "base")),
            lang_order \in LanguageOrders(analyses)}

\* MECEAnalyzer.analyze: the reports it may return, or the error it raises.
Analyze(c) ==
    IF ~CorpusReadable(c) THEN {ReadError}
    ELSE LET outcomes(analyses) ==
                 IF OverlapsRaise(analyses) THEN {ZeroDivisionError}
                 ELSE AnalyzeOutcomes(analyses)
         IN  outcomes(AnalyzeAllFiles(c))

(***************************************************************************)
(* core.py                                                                 *)
(***************************************************************************)
\* str(self.repo_root)
RepoRoot == "repo"

Exists(files, path) == path \in files

\* _detect_context with javascript appended whenever package.json exists.
DetectContextAlwaysJavascript(files) ==
    LET languages ==
            (IF Exists(files, "requirements.txt") \/ Exists(files, "pyproject.toml")
             THEN <<"python">> ELSE <<>>)
            \o (IF Exists(files, "package.json")
                THEN (IF Exists(files, "tsconfig.json")
                      THEN <<"typescript", "javascript">> ELSE <<"javascript">>)
                ELSE <<>>)
            \o (IF Exists(files, "go.mod") THEN <<"go">> ELSE <<>>)
            \o (IF Exists(files, "pom.xml") \/ Exists(files, "build.gradle")
                THEN <<"java">> ELSE <<>>)
            \o (IF Exists(files, "Cargo.toml") THEN <<"rust">> ELSE <<>>)
    IN  [languages |-> languages,
         frameworks |-> <<>>,
         cloud_providers |->
             (IF Exists(files, "terraform") THEN <<"aws">> ELSE <<>>)
             \o (IF Exists(files, "vercel.json") THEN <<"vercel">> ELSE <<>>),
         maturity |->
             IF Exists(files, ".github/workflows")
             THEN (IF Exists(files, "Dockerfile") THEN "production"
                   ELSE "pre-production")
             ELSE "mvp",
         working_directory |-> RepoRoot]

\* _detect_context with the container build file deciding on its own: maturity
\* is production whenever Dockerfile exists.
DetectContextDockerfileAlone(files) ==
    LET languages ==
            (IF Exists(files, "requirements.txt") \/ Exists(files, "pyproject.toml")
             THEN <<"python">> ELSE <<>>)
            \o (IF Exists(files, "package.json")
                THEN (IF Exists(files, "tsconfig.json")
                      THEN <<"typescript">> ELSE <<"javascript">>)
                ELSE <<>>)
            \o (IF Exists(files, "go.mod") THEN <<"go">> ELSE <<>>)
            \o (IF Exists(files, "pom.xml") \/ Exists(files, "build.gradle")
                THEN <<"java">> ELSE <<>>)
            \o (IF Exists(files, "Cargo.toml") THEN <<"rust">> ELSE <<>>)
    IN  [languages |-> languages,
         frameworks |-> <<>>,
         cloud_providers |->
             (IF Exists(files, "terraform") THEN <<"aws">> ELSE <<>>)
             \o (IF Exists(files, "vercel.json") THEN <<"vercel">> ELSE <<>>),
         maturity |->
             IF Exists(files, "Dockerfile") THEN "production"
             ELSE IF Exists(files, ".github/workflows") THEN "pre-production"
             ELSE "mvp",
         working_directory |-> RepoRoot]

\* AuditAgent._detect_context
DetectContext(files) ==
    LET languages ==
            (IF Exists(files, "requirements.txt") \/ Exists(files, "pyproject.toml")
             THEN <<"python">> ELSE <<>>)
            \o (IF Exists(files, "package.json")
                THEN (IF Exists(files, "tsconfig.json")
                      THEN <<"typescript">> ELSE <<"javascript">>)
                ELSE <<>>)
            \o (IF Exists(files, "go.mod") THEN <<"go">> ELSE <<>>)
            \o (IF Exists(files, "pom.xml") \/ Exists(files, "build.gradle")
                THEN <<"java">> ELSE <<>>)
            \o (IF Exists(files, "Cargo.toml") THEN <<"rust">> ELSE <<>>)
        cloud_providers ==
            (IF Exists(files, "terraform") THEN <<"aws">> ELSE <<>>)
            \o (IF Exists(files, "vercel.json") THEN <<"vercel">> ELSE <<>>)
        maturity ==
            IF Exists(files, ".github/workflows")
            THEN (IF Exists(files, "Dockerfile") THEN "production"
                  ELSE "pre-production")
            ELSE "mvp"
    IN  [languages |-> languages,
         frameworks |-> <<>>,
         cloud_providers |-> cloud_providers,
         maturity |-> maturity,
         working_directory |-> RepoRoot]

\* AuditAgent._generate_rules_report: the report with agents_md_analysis, or
\* the KeyError of parse_index.
GenerateRulesReport(idx, agents, ctx) ==
    LET with_agents(report, agents_data) ==
            IF report = KeyError THEN KeyError
            ELSE report @@ ("agents_md_analysis" :>
                     [total_references |-> agents_data.total_references,
                      languages_covered |-> agents_data.languages_covered])
    IN  with_agents(GenerateSelectionReport(idx, ctx.languages, ctx.frameworks,
                                            ctx.cloud_providers, ctx.maturity),
                    ParseAgentsMd(agents))

\* AuditAgent._run_accuracy_audit
RunAccuracyAudit ==
    [files_audited |-> 0, issues_found |-> 0, status |-> "not_implemented_yet"]

\* archive_files[:5]
ShownRecommendations == 5

\* AuditAgent._analyze_disposition
AnalyzeDisposition(arch) ==
    LET archive_files == IF arch.exists THEN arch.files ELSE <<>>
        shown == SubSeq(archive_files, 1,
                        IF Len(archive_files) < ShownRecommendations
                        THEN Len(archive_files) ELSE ShownRecommendations)
    IN  [total_files |-> Len(archive_files),
         redundant   |-> Len(archive_files),
         obsolete    |-> Len(archive_files),
         unused      |-> 0,
         active      |-> 0,
         recommendations |->
             [i \in 1..Len(shown) |->
                 [file |-> "archive/" \o shown[i], status |-> "obsolete",
                  action |-> "delete"]]]

\* Variant of RunsMece for C1: the stage runs at every depth.
RunsMeceAtEveryDepth(cfg) == TRUE
\* Variant of RunsMece for C4: the stage runs below full only.
RunsMeceBelowFull(cfg) == cfg.depth \in {"quick", "standard"}
\* if self.config.depth in ['standard', 'full']
RunsMece(cfg) == cfg.depth \in {"standard", "full"}

\* Variant of RunsAccuracy for C3: enable_citations is not consulted.
RunsAccuracyAtFull(cfg) == cfg.depth = "full"
\* if self.config.depth == 'full' and self.config.enable_citations
RunsAccuracy(cfg) == cfg.depth = "full" /\ cfg.enable_citations

\* Variant of RunsDisposition for C2: the stage runs at full only.
RunsDispositionAtFull(cfg) == cfg.depth = "full"
\* if self.config.depth in ['standard', 'full']
RunsDisposition(cfg) == cfg.depth \in {"standard", "full"}

(***************************************************************************)
(* AuditAgent.run, one action per step of the pipeline                     *)
(***************************************************************************)
\* Step 1: self.context = self._detect_context()
StepDetectContext ==
    /\ pc = "detect_context"
    /\ context' = DetectContext(fs)
    /\ pc' = "rules_report"
    /\ UNCHANGED <<config, fs, index, agents_md, corpus, archive, rules_report,
                   mece_map, accuracy, disposition, result>>

\* Step 2: rules_report = self._generate_rules_report()
StepRulesReport ==
    /\ pc = "rules_report"
    /\ \E report \in {GenerateRulesReport(index, agents_md, context)} :
           IF report = KeyError
           THEN pc' = "raised" /\ UNCHANGED rules_report
           ELSE pc' = "mece_map" /\ rules_report' = report
    /\ UNCHANGED <<config, fs, index, agents_md, corpus, archive, context,
                   mece_map, accuracy, disposition, result>>

\* Step 3: mece_map = self._create_mece_map() if depth >= standard
StepMeceMap ==
    /\ pc = "mece_map"
    /\ IF RunsMece(config)
       THEN \E map \in Analyze(corpus) :
                IF Has(map, "raised")
                THEN pc' = "raised" /\ UNCHANGED mece_map
                ELSE pc' = "accuracy" /\ mece_map' = map
       ELSE pc' = "accuracy" /\ UNCHANGED mece_map
    /\ UNCHANGED <<config, fs, index, agents_md, corpus, archive, context,
                   rules_report, accuracy, disposition, result>>

\* Step 4: accuracy = self._run_accuracy_audit() if depth == full
StepAccuracy ==
    /\ pc = "accuracy"
    /\ IF RunsAccuracy(config)
       THEN accuracy' = RunAccuracyAudit
       ELSE UNCHANGED accuracy
    /\ pc' = "disposition"
    /\ UNCHANGED <<config, fs, index, agents_md, corpus, archive, context,
                   rules_report, mece_map, disposition, result>>

\* Step 5: disposition = self._analyze_disposition() if depth >= standard
StepDisposition ==
    /\ pc = "disposition"
    /\ IF RunsDisposition(config)
       THEN disposition' = AnalyzeDisposition(archive)
       ELSE UNCHANGED disposition
    /\ pc' = "assemble"
    /\ UNCHANGED <<config, fs, index, agents_md, corpus, archive, context,
                   rules_report, mece_map, accuracy, result>>

\* Step 6 followed by a second pass through the stages.
StepAssembleThenRestart ==
    /\ pc = "assemble"
    /\ result' = [context |-> context,
                  rules_selection_report |-> rules_report,
                  mece_content_map |-> mece_map,
                  accuracy_audit |-> accuracy,
                  file_disposition |-> disposition,
                  beads_tasks |-> None,
                  patch_suggestions |-> None]
    /\ pc' = IF result = None THEN "detect_context" ELSE "done"
    /\ UNCHANGED <<config, fs, index, agents_md, corpus, archive, context,
                   rules_report, mece_map, accuracy, disposition>>

\* Step 6: result = AuditResult(...); return result. The timestamp is the
\* clock's and is left out.
StepAssemble ==
    /\ pc = "assemble"
    /\ result' = [context |-> context,
                  rules_selection_report |-> rules_report,
                  mece_content_map |-> mece_map,
                  accuracy_audit |-> accuracy,
                  file_disposition |-> disposition,
                  beads_tasks |-> None,
                  patch_suggestions |-> None]
    /\ pc' = "done"
    /\ UNCHANGED <<config, fs, index, agents_md, corpus, archive, context,
                   rules_report, mece_map, accuracy, disposition>>

(***************************************************************************)
(* Inputs                                                                  *)
(***************************************************************************)
\* Index entries of the base category: the path under "file" or under "path",
\* an empty "path" beside a "file", a name without a suffix, a second suffix,
\* neither key, and an entry without a name.
BaseEntryPool ==
    <<[name |-> "Code Quality", file |-> ".claude/rules/base/code-quality.md"],
     [name |-> "Security", path |-> "base/security-principles.md",
      estimatedTokens |-> 500],
     [name |-> "Git", path |-> "", file |-> "git-workflow"],
     [name |-> "Testing", path |-> "base/Testing.md", file |-> "base/code-quality.md"],
     [name |-> "Backup", file |-> "base/code-quality.md.bak"],
     [name |-> "No Path", estimatedTokens |-> 300],
     [file |-> "base/code-quality.md"]>>

\* Index entries of the language, framework and cloud categories.
SubEntryPool ==
    <<[name |-> "Standards", file |-> "rules/coding-standards.md"],
      [name |-> "Testing", path |-> "testing.md", estimatedTokens |-> 700]>>

\* The lists of n entries of a pool, in the order of the pool.
Picks(pool, n) ==
    {SelectSeq(pool, LAMBDA e : e \in S) : S \in {T \in SUBSET Range(pool) : Cardinality(T) = n}}

\* The sub-keys the generated indexes use, by category.
Slots == <<"base", "python", "react", "aws">>

\* How many entries each slot holds: MaxIndexEntries at most, all together.
LenVectors ==
    {v \in [1..Len(Slots) -> 0..MaxIndexEntries] :
        SumSeq(v) <= MaxIndexEntries}

\* A "languages"-like object: the sub-keys that have rules, in order.
Groups(pairs) == SelectSeq(pairs, LAMBDA g : g.rules # <<>>)

IndexJson(b, py, react, aws) ==
    [rules |-> [base |-> b,
                languages |-> Groups(<<[key |-> "python", rules |-> py]>>),
                frameworks |-> Groups(<<[key |-> "react", rules |-> react]>>),
                cloud |-> Groups(<<[key |-> "aws", rules |-> aws]>>)]]

GeneratedIndexes ==
    UNION {{[exists |-> TRUE, json |-> IndexJson(b, py, react, aws)] :
                b \in Picks(BaseEntryPool, v[1]),
                py \in Picks(SubEntryPool, v[2]),
                react \in Picks(SubEntryPool, v[3]),
                aws \in Picks(SubEntryPool, v[4])} : v \in LenVectors}

\* No index file; an index that is {}; one that lists an entry twice, after
\* another, and has two languages; one without the sub-keyed categories; one
\* whose language has an empty list.
SpecialIndexes ==
    {[exists |-> FALSE, json |-> <<>>],
     [exists |-> TRUE, json |-> <<>>],
     [exists |-> TRUE,
      json |-> [rules |-> [base |-> <<BaseEntryPool[4], BaseEntryPool[1],
                                      BaseEntryPool[1]>>,
                           languages |-> <<[key |-> "go", rules |-> <<SubEntryPool[2]>>],
                                           [key |-> "python", rules |->
                                               <<SubEntryPool[2], SubEntryPool[1]>>]>>,
                           frameworks |-> <<>>, cloud |-> <<>>]]],
     [exists |-> TRUE,
      json |-> [rules |-> [base |-> <<[name |-> "Code Quality",
                                       file |-> "base/code-quality.md"]>>]]],
     [exists |-> TRUE,
      json |-> [rules |-> [base |-> <<>>,
                           languages |-> <<[key |-> "python", rules |-> <<>>]>>,
                           frameworks |-> <<>>, cloud |-> <<>>]]]}

Indexes == GeneratedIndexes \cup SpecialIndexes

\* Project contexts handed to generate_selection_report.
SelContexts ==
    {[languages |-> l, frameworks |-> f, cloud_providers |-> c,
      maturity |-> "mvp", working_directory |-> RepoRoot] :
        l \in {<<>>, <<"python">>, <<"go", "python">>},
        f \in {<<>>, <<"react">>},
        c \in {<<>>, <<"aws">>}}

\* AuditConfig: depth and enable_citations vary, the rest keeps its default.
Configs ==
    {[depth |-> d, enable_citations |-> e, enable_beads_generation |-> FALSE,
      enable_pr_suggestions |-> TRUE, max_tasks_per_finding |-> 3] :
        d \in {"quick", "standard", "full"}, e \in BOOLEAN}

\* Marker files and directories of the audited repositories.
Repos ==
    {{},
     {"requirements.txt", "pyproject.toml", ".github/workflows"},
     {"package.json", "tsconfig.json", ".github/workflows", "Dockerfile"},
     {"go.mod", "pom.xml", "Cargo.toml", "package.json", "terraform", "vercel.json"}}

NoAgents == [exists |-> FALSE, links |-> <<>>, code_blocks |-> <<>>]
SomeAgents ==
    [exists |-> TRUE,
     links |-> <<[title |-> "Code Quality", path |-> "base/code-quality.md"]>>,
     code_blocks |-> <<[language |-> "python", code_sample |-> "pass"],
                       [language |-> "python", code_sample |-> "x = 1"]>>]

\* The index and AGENTS.md of the audited repositories: no index, the empty
\* index of the tests, the index of the integration test, one with python and
\* aws rules, one with a nameless entry.
RuleSources ==
    {[index |-> [exists |-> FALSE, json |-> <<>>], agents_md |-> NoAgents],
     [index |-> [exists |-> TRUE, json |-> IndexJson(<<>>, <<>>, <<>>, <<>>)],
      agents_md |-> SomeAgents],
     [index |-> [exists |-> TRUE,
       json |-> [rules |-> [base |-> <<[name |-> "Code Quality",
                                        file |-> ".claude/rules/base/code-quality.md"]>>,
                            languages |-> <<[key |-> "typescript", rules |->
                                <<[name |-> "TypeScript Standards",
                                   file |-> ".claude/rules/languages/typescript/standards.md"]>>]>>,
                            frameworks |-> <<>>, cloud |-> <<>>]]],
      agents_md |-> NoAgents],
     [index |-> [exists |-> TRUE,
       json |-> IndexJson(<<[name |-> "Security", path |-> "base/security-principles.md",
                             estimatedTokens |-> 500]>>,
                          <<[name |-> "Standards", file |-> "rules/coding-standards.md"]>>,
                          <<>>,
                          <<[name |-> "Testing", path |-> "testing.md",
                             estimatedTokens |-> 700]>>)],
      agents_md |-> SomeAgents],
     [index |-> [exists |-> TRUE,
       json |-> IndexJson(<<[file |-> "base/code-quality.md"]>>, <<>>, <<>>, <<>>)],
      agents_md |-> NoAgents]}

NoDir == [exists |-> FALSE, files |-> <<>>]
NoFolders == [exists |-> FALSE, folders |-> <<>>]

Doc(name, headings, text, words) ==
    [name |-> name, headings |-> headings, text |-> text, code_blocks |-> <<>>,
     word_count |-> words, readable |-> TRUE]

\* The two base documents of test_analyze_with_base_files.
CodeQualityDoc ==
    Doc("code-quality.md", <<"Code Quality", "Testing", "Security">>,
        <<"Guidelines", "for", "writing", "quality", "code", "Always", "write",
          "tests", "for", "your", "code", "Follow", "security", "best",
          "practices">>, 24)
SecurityPrinciplesDoc ==
    Doc("security-principles.md", <<"Security Principles", "Authentication", "Testing">>,
        <<"Security", "best", "practices", "for", "development", "Use", "strong",
          "authentication", "mechanisms", "Test", "your", "security",
          "implementations">>, 22)

\* Two base documents that share five keywords and two headings.
ApiGuideDoc ==
    Doc("api-guide.md", <<"API Testing", "Error Handling!">>,
        <<"api", "endpoint", "test", "error", "cache", "route">>, 12)
ApiNotesDoc ==
    Doc("api-notes.md", <<"API Testing", "Error Handling!">>,
        <<"API", "endpoint", "test", "error", "cache">>, 11)

\* Two base documents that share three headings and match no keyword.
PlainDocA == Doc("alpha.md", <<"Overview", "Rules", "Examples">>, <<"words">>, 7)
PlainDocB == Doc("beta.md", <<"Overview", "Rules", "Examples">>, <<"more", "words">>, 8)

NoArchive == [exists |-> FALSE, files |-> <<>>]
OneArchived == [exists |-> TRUE, files |-> <<"old.md">>]
SixArchived ==
    [exists |-> TRUE, files |-> <<"a.md", "b.md", "c.md", "d.md", "e.md", "f.md">>]

\* The rule corpus and the archive directory of the audited repositories.
DocSources ==
    {[corpus |-> [base |-> NoDir, languages |-> NoFolders, frameworks |-> NoFolders,
                  cloud |-> NoFolders],
      archive |-> NoArchive],
     [corpus |-> [base |-> [exists |-> TRUE, files |-> <<>>], languages |-> NoFolders,
                  frameworks |-> NoFolders, cloud |-> NoFolders],
      archive |-> OneArchived],
     [corpus |-> [base |-> [exists |-> TRUE, files |->
                      <<Doc("code-quality.md", <<"Code Quality">>,
                            <<"Quality", "guidelines">>, 5)>>],
                  languages |-> NoFolders, frameworks |-> NoFolders,
                  cloud |-> NoFolders],
      archive |-> NoArchive],
     [corpus |-> [base |-> [exists |-> TRUE, files |->
                      <<CodeQualityDoc, SecurityPrinciplesDoc>>],
                  languages |-> [exists |-> TRUE, folders |->
                      <<[name |-> "python", is_dir |-> TRUE, files |->
                            <<Doc("testing.md", <<"Async">>, <<"pytest", "await">>, 4)>>],
                        [name |-> "README.md", is_dir |-> FALSE, files |-> <<>>]>>],
                  frameworks |-> NoFolders, cloud |-> NoFolders],
      archive |-> SixArchived],
     [corpus |-> [base |-> [exists |-> TRUE, files |-> <<ApiGuideDoc, ApiNotesDoc>>],
                  languages |-> NoFolders,
                  frameworks |-> [exists |-> TRUE, folders |->
                      <<[name |-> "react", is_dir |-> TRUE, files |->
                            <<Doc("hooks.md", <<"Hooks">>, <<"handler">>, 3)>>]>>],
                  cloud |-> NoFolders],
      archive |-> OneArchived],
     [corpus |-> [base |-> [exists |-> TRUE, files |-> <<PlainDocA, PlainDocB>>],
                  languages |-> NoFolders, frameworks |-> NoFolders,
                  cloud |-> NoFolders],
      archive |-> SixArchived],
     [corpus |-> [base |-> [exists |-> TRUE, files |->
                      <<[CodeQualityDoc EXCEPT !.readable = FALSE]>>],
                  languages |-> NoFolders, frameworks |-> NoFolders,
                  cloud |-> NoFolders],
      archive |-> OneArchived]}

(***************************************************************************)
(* Specifications                                                          *)
(***************************************************************************)
\* AuditAgent(repo_root, config), before run() is called.
Init ==
    /\ pc = "detect_context"
    /\ config \in Configs
    /\ fs \in Repos
    /\ \E r \in RuleSources : index = r.index /\ agents_md = r.agents_md
    /\ \E d \in DocSources : corpus = d.corpus /\ archive = d.archive
    /\ context = None
    /\ rules_report = None
    /\ mece_map = None
    /\ accuracy = None
    /\ disposition = None
    /\ result = None

Next ==
    \/ StepDetectContext
    \/ StepRulesReport
    \/ StepMeceMap
    \/ StepAccuracy
    \/ StepDisposition
    \/ StepAssemble

Spec == Init /\ [][Next]_vars

\* The stage that follows a stage of run.
NextStage(stage) ==
    CASE stage = "detect_context" -> "rules_report"
      [] stage = "rules_report"   -> "mece_map"
      [] stage = "mece_map"       -> "accuracy"
      [] stage = "accuracy"       -> "disposition"
      [] stage = "disposition"    -> "assemble"
      [] stage = "assemble"       -> "done"
      [] OTHER                    -> "none"

\* A run at a stage before the end, taken to the next stage with nothing
\* computed. It is enabled exactly at the stages before the end, where Next is
\* enabled too, and no step of Next is such a step.
LeavesStage ==
    /\ pc \notin {"done", "raised"}
    /\ pc' = NextStage(pc)
    /\ UNCHANGED <<config, fs, index, agents_md, corpus, archive, context,
                   rules_report, mece_map, accuracy, disposition, result>>

\* run is sequential code: a run that has a next statement executes it, so no
\* run stays for ever at a stage before the end. For the behaviours of Spec
\* this is WF_vars(Next), stated with an action whose enabling needs none of
\* the stages' results.
FairSpec == Spec /\ WF_vars(LeavesStage)

\* RulesParser(repo_root).generate_selection_report(languages, frameworks,
\* cloud, maturity), called on its own with any context.
CallGenerateSelectionReport ==
    /\ pc = "sel_call"
    /\ \E report \in {GenerateSelectionReport(index, context.languages,
                            context.frameworks, context.cloud_providers,
                            context.maturity)} :
           IF report = KeyError
           THEN pc' = "sel_raised" /\ UNCHANGED rules_report
           ELSE pc' = "sel_done" /\ rules_report' = report
    /\ UNCHANGED <<config, fs, index, agents_md, corpus, archive, context,
                   mece_map, accuracy, disposition, result>>

InitSel ==
    /\ pc = "sel_call"
    /\ index \in Indexes
    /\ context \in SelContexts
    /\ config = [depth |-> "quick", enable_citations |-> TRUE,
                 enable_beads_generation |-> FALSE, enable_pr_suggestions |-> TRUE,
                 max_tasks_per_finding |-> 3]
    /\ fs = {}
    /\ agents_md = NoAgents
    /\ corpus = [base |-> NoDir, languages |-> NoFolders, frameworks |-> NoFolders,
                 cloud |-> NoFolders]
    /\ archive = NoArchive
    /\ rules_report = None
    /\ mece_map = None
    /\ accuracy = None
    /\ disposition = None
    /\ result = None

NextSel == CallGenerateSelectionReport

SpecSel == InitSel /\ [][NextSel]_vars

\* Rule documents of the generated corpora. The first two share four keywords
\* and a heading; the third shares five keywords with the first among twelve
\* of its own; the fourth matches no keyword.
DocPool ==
    <<Doc("code-quality.md", <<"Testing">>,
          <<"api", "endpoint", "test", "error", "cache">>, 7),
      Doc("security.md", <<"Testing">>, <<"API", "endpoint", "test", "error">>, 6),
      Doc("git.md", <<>>,
          <<"api", "endpoint", "test", "error", "cache", "docker", "deployment",
            "sql", "query", "orm", "logging", "performance">>, 12),
      Doc("Error-Handling.md", <<"Code">>, <<"words">>, 3)>>

\* Rule documents of a language, framework or provider folder.
SubDocPool ==
    <<Doc("testing.md", <<"Async">>, <<"pytest", "await">>, 4),
      Doc("coding-standards.md", <<"Quality code">>, <<"api", "endpoint", "test", "error">>, 9)>>

\* The folders the generated corpora fill: base, two languages (one of them
\* outside the expected-topics table), a framework and a provider.
DocSlots == <<"base", "python", "kotlin", "react", "aws">>

\* Largest number of documents of a generated corpus.
MaxDocs == 3

DocLenVectors ==
    {v \in [1..Len(DocSlots) -> 0..MaxDocs] : SumSeq(v) <= MaxDocs}

\* A category directory with the folders that have documents.
Folders(pairs) ==
    (LET kept(dirs) == [exists |-> dirs # <<>>, folders |-> dirs]
     IN  kept(SelectSeq(pairs, LAMBDA f : f.files # <<>>)))

CorpusOf(b, py, kt, react, aws) ==
    [base |-> [exists |-> b # <<>>, files |-> b],
     languages |-> Folders(<<[name |-> "python", is_dir |-> TRUE, files |-> py],
                             [name |-> "kotlin", is_dir |-> TRUE, files |-> kt]>>),
     frameworks |-> Folders(<<[name |-> "react", is_dir |-> TRUE, files |-> react]>>),
     cloud |-> Folders(<<[name |-> "aws", is_dir |-> TRUE, files |-> aws]>>)]

GeneratedCorpora ==
    UNION {{CorpusOf(b, py, kt, react, aws) :
                b \in Picks(DocPool, v[1]),
                py \in Picks(SubDocPool, v[2]),
                kt \in Picks(SubDocPool, v[3]),
                react \in Picks(SubDocPool, v[4]),
                aws \in Picks(SubDocPool, v[5])} : v \in DocLenVectors}

\* Two base documents with four of ten keywords and one of five topics in common.
TenKeywordsDoc ==
    Doc("alpha.md", <<"Scope", "Usage", "Notes", "Layout">>,
        <<"api", "endpoint", "route", "handler", "test", "error", "cache",
          "docker", "sql", "query">>, 18)
FourKeywordsDoc ==
    Doc("beta.md", <<"Scope">>, <<"api", "endpoint", "route", "handler">>, 6)

\* Six base documents, each with the keywords of the one before and one more:
\* fifteen pairs, each with at least ten of at most fifteen keywords in common.
KeywordRun ==
    <<"api", "endpoint", "test", "error", "cache", "docker", "sql", "query",
      "orm", "logging", "performance", "route", "handler", "database", "security">>
NestedKeywordDocs ==
    <<Doc("testing.md", <<>>, SubSeq(KeywordRun, 1, 10), 10),
      Doc("security.md", <<>>, SubSeq(KeywordRun, 1, 11), 11),
      Doc("git.md", <<>>, SubSeq(KeywordRun, 1, 12), 12),
      Doc("architecture.md", <<>>, SubSeq(KeywordRun, 1, 13), 13),
      Doc("refactoring.md", <<>>, SubSeq(KeywordRun, 1, 14), 14),
      Doc("documentation.md", <<>>, SubSeq(KeywordRun, 1, 15), 15)>>

\* Base documents with the headings Testing and Security: the first two have
\* four of five keywords and two of three topics in common, the first and the
\* third four of twenty-one keywords and two of five topics.
TestingSecurityDocA ==
    Doc("alpha.md", <<"Testing", "Security">>, <<"api", "endpoint">>, 6)
TestingSecurityDocB ==
    Doc("beta.md", <<"Testing", "Security">>, <<"api", "endpoint", "cache">>, 7)
TestingSecurityDocC ==
    Doc("gamma.md", <<"Testing", "Security", "Scope", "Usage">>,
        KeywordRun \o <<"async", "await", "promise", "pytest", "jest">>, 26)

\* Two base documents with fourteen of twenty-three keywords and no topic in
\* common: their score is 7 / 23, between 0.3 and 0.305.
FourteenKeywordsDoc ==
    Doc("delta.md", <<>>, SubSeq(KeywordRun, 1, 14), 14)
TwentyThreeKeywordsDoc ==
    Doc("epsilon.md", <<>>,
        KeywordRun \o <<"async", "await", "promise", "pytest", "jest", "testing",
                        "authentication", "authorization">>, 23)

\* Corpora written out in full.
SpecialCorpora ==
    {CorpusOf(<<TenKeywordsDoc, FourKeywordsDoc>>, <<>>, <<>>, <<>>, <<>>),
     CorpusOf(<<FourteenKeywordsDoc, TwentyThreeKeywordsDoc>>, <<>>, <<>>, <<>>, <<>>),
     CorpusOf(<<Doc("guide.md", <<"Error-Handling">>, <<"words">>, 1)>>,
              <<>>, <<>>, <<>>, <<>>),
     CorpusOf(<<TestingSecurityDocA, TestingSecurityDocB>>, <<>>, <<>>, <<>>, <<>>),
     CorpusOf(<<TestingSecurityDocA, TestingSecurityDocC>>, <<>>, <<>>, <<>>, <<>>),
     CorpusOf(NestedKeywordDocs, <<>>, <<>>, <<>>, <<>>),
     CorpusOf(SubSeq(NestedKeywordDocs, 1, 5), <<NestedKeywordDocs[6]>>, <<>>, <<>>, <<>>),
     \* two base documents whose names are the two words of an expected topic
     CorpusOf(<<Doc("code.md", <<>>, <<"words">>, 1),
                Doc("quality.md", <<>>, <<"words">>, 1)>>, <<>>, <<>>, <<>>, <<>>),
     \* the four directories present, without a *.md file
     [base |-> [exists |-> TRUE, files |-> <<>>],
      languages |-> [exists |-> TRUE, folders |->
          <<[name |-> "python", is_dir |-> TRUE, files |-> <<>>],
            [name |-> "README.md", is_dir |-> FALSE, files |-> <<>>]>>],
      frameworks |-> [exists |-> TRUE, folders |-> <<>>],
      cloud |-> [exists |-> TRUE, folders |->
          <<[name |-> "aws", is_dir |-> TRUE, files |-> <<>>]>>]],
     \* languages alone present, with a file that is not in a folder
     [base |-> NoDir,
      languages |-> [exists |-> TRUE, folders |->
          <<[name |-> "notes.md", is_dir |-> FALSE, files |-> <<>>]>>],
      frameworks |-> NoFolders,
      cloud |-> NoFolders]}

\* The corpora MECEAnalyzer.analyze is called on: the generated ones, the
\* special ones and those of the audited repositories.
Corpora == GeneratedCorpora \cup SpecialCorpora \cup {d.corpus : d \in DocSources}

(***************************************************************************)
(* Properties of AuditAgent.run (Spec)                                     *)
(***************************************************************************)
\* The optional stages a configuration runs.
Stages(cfg) ==
    (IF RunsMece(cfg) THEN {"mece"} ELSE {})
        \cup (IF RunsAccuracy(cfg) THEN {"accuracy"} ELSE {})
        \cup (IF RunsDisposition(cfg) THEN {"disposition"} ELSE {})

\* The optional stages whose output the returned AuditResult holds.
Executed ==
    (IF result.mece_content_map # None THEN {"mece"} ELSE {})
        \cup (IF result.accuracy_audit # None THEN {"accuracy"} ELSE {})
        \cup (IF result.file_disposition # None THEN {"disposition"} ELSE {})

\* C1: a run with depth = quick returns an AuditResult whose mece_content_map,
\* accuracy_audit and file_disposition are all None, and whose context and
\* rules_selection_report are present, whatever the other config fields and
\* the repository hold.
C1_QuickResult ==
    (pc = "done" /\ config.depth = "quick") =>
        /\ result.mece_content_map = None
        /\ result.accuracy_audit = None
        /\ result.file_disposition = None
        /\ <<>> \notin {result.mece_content_map, result.accuracy_audit,
                        result.file_disposition}
        /\ result.context # None
        /\ result.rules_selection_report # None

\* A quick run has returned for a repository that has rule documents and an
\* archive, with citations enabled.
C1_Witness ==
    /\ pc = "done" /\ config.depth = "quick" /\ config.enable_citations
    /\ corpus.base.exists /\ corpus.base.files # <<>> /\ archive.exists
    /\ result.rules_selection_report.total_rules_available > 0

\* C2: a run with depth = standard returns an AuditResult with
\* mece_content_map and file_disposition present and accuracy_audit None.
C2_StandardResult ==
    (pc = "done" /\ config.depth = "standard") =>
        /\ result.mece_content_map # None
        /\ result.file_disposition # None
        /\ result.accuracy_audit = None

\* A standard run with citations enabled has returned, having analysed
\* documents and found archived files.
C2_Witness ==
    /\ pc = "done" /\ config.depth = "standard" /\ config.enable_citations
    /\ result.mece_content_map.files_analyzed > 0
    /\ result.file_disposition.total_files > 0

\* C3 as stated: a run with depth = full returns, for every AuditConfig, an
\* AuditResult with mece_content_map, file_disposition and accuracy_audit all
\* present.
C3_FullResultAsStated ==
    (pc = "done" /\ config.depth = "full") =>
        /\ result.mece_content_map # None
        /\ result.file_disposition # None
        /\ result.accuracy_audit # None

\* C3: a run with depth = full returns an AuditResult with mece_content_map
\* and file_disposition present, and with accuracy_audit present exactly when
\* enable_citations is set.
C3_FullResult ==
    (pc = "done" /\ config.depth = "full") =>
        /\ result.mece_content_map # None
        /\ result.file_disposition # None
        /\ (result.accuracy_audit # None <=> config.enable_citations)

\* A full run with citations disabled has returned without an accuracy audit.
C3_Witness ==
    /\ pc = "done" /\ config.depth = "full" /\ ~config.enable_citations
    /\ result.accuracy_audit = None
    /\ result.mece_content_map # None

\* C4: the stages are additive in depth. With the other config fields fixed
\* (enable_citations among them), the optional stages run at quick are among
\* those run at standard, which are among those run at full; the accuracy
\* audit runs neither at quick nor at standard, the content-consistency and
\* file-disposition stages do not run at quick; and the outputs a returned
\* result holds are the outputs of the stages of its depth.
C4_StagesAdditive ==
    LET at(d) == Stages([config EXCEPT !.depth = d])
    IN  /\ at("quick") \subseteq at("standard")
        /\ at("standard") \subseteq at("full")
        /\ "accuracy" \notin at("quick") \cup at("standard")
        /\ at("quick") \cap {"mece", "disposition"} = {}
        /\ pc = "done" => Executed = at(config.depth)

\* A full run with citations enabled has returned with the output of every
\* optional stage.
C4_Witness ==
    /\ pc = "done" /\ config.depth = "full" /\ config.enable_citations
    /\ Executed = {"mece", "accuracy", "disposition"}

(***************************************************************************)
(* Properties of generate_selection_report (SpecSel)                       *)
(***************************************************************************)
\* The entries of the index file, none when there is no file.
CatalogEntries == IF index.exists THEN IndexEntries(index.json) ELSE <<>>

\* The "base" list of the index file.
BaseEntries == IF index.exists THEN Get(IndexRules(index.json), "base", <<>>) ELSE <<>>

\* The decimal number a string of digits writes.
RECURSIVE StrToNat(_)
StrToNat(s) ==
    IF s = "" THEN 0
    ELSE 10 * StrToNat(SubSeq(s, 1, Len(s) - 1))
             + (Find("0123456789", CharAt(s, Len(s))) - 1)

\* The value, in tenths of a percent, that a percentage "d..d.d%" writes.
PctTenths(s) ==
    LET number == SubSeq(s, 1, Len(s) - 1)
        dot    == Find(number, ".")
    IN  IF dot = 0 THEN 10 * StrToNat(number)
        ELSE 10 * StrToNat(SubSeq(number, 1, dot - 1))
                 + StrToNat(SubSeq(number, dot + 1, Len(number)))

\* Whether context c2 has every language, framework and provider of c1.
Covers(c2, c1) ==
    /\ Range(c1.languages) \subseteq Range(c2.languages)
    /\ Range(c1.frameworks) \subseteq Range(c2.frameworks)
    /\ Range(c1.cloud_providers) \subseteq Range(c2.cloud_providers)

\* The report of the same index for another context.
ReportFor(c) ==
    GenerateSelectionReport(index, c.languages, c.frameworks, c.cloud_providers,
                            c.maturity)

\* C5: every base entry whose path has its stem in {code-quality,
\* security-principles, git-workflow} is among the selected rules of the
\* report, with a reasoning entry of score 100, whatever the context.
C5_CriticalBaseSelected ==
    pc = "sel_done" =>
        \A e \in Range(BaseEntries) :
            Stem(RulePath(e)) \in {"code-quality", "security-principles", "git-workflow"}
            => \E i \in DOMAIN rules_report.selected_rules :
                   /\ rules_report.selected_rules[i].category = "base"
                   /\ rules_report.selected_rules[i].name = e.name
                   /\ rules_report.selected_rules[i].path = RulePath(e)
                   /\ rules_report.selection_reasoning[i].rule = e.name
                   /\ rules_report.selection_reasoning[i].score = 100

\* A report for the empty context has selected two critical base records.
C5_Witness ==
    /\ pc = "sel_done"
    /\ context.languages = <<>> /\ context.frameworks = <<>>
    /\ context.cloud_providers = <<>>
    /\ rules_report.breakdown.base = 2
    /\ rules_report.total_rules_available = 3

\* C6: a language record is selected exactly when its language is among the
\* detected languages, and then with score 90; a framework record exactly
\* when its framework is among the detected frameworks, with score 90; a cloud
\* record exactly when its provider is among the detected providers, with
\* score 85; a base record outside the critical list is never selected.
C6_SelectedIffDetected ==
    pc = "sel_done" =>
        LET all_rules == ParseIndex(index)
            selected  == rules_report.selected_rules
            Selected(r) == r \in Range(selected)
            Scored(r, score) ==
                \A i \in DOMAIN selected :
                    selected[i] = r =>
                        /\ rules_report.selection_reasoning[i].rule = r.name
                        /\ rules_report.selection_reasoning[i].score = score
        IN  /\ \A r \in Range(all_rules.language) :
                   /\ Selected(r) <=> r.language \in Range(context.languages)
                   /\ Scored(r, 90)
            /\ \A r \in Range(all_rules.framework) :
                   /\ Selected(r) <=> r.framework \in Range(context.frameworks)
                   /\ Scored(r, 90)
            /\ \A r \in Range(all_rules.cloud) :
                   /\ Selected(r) <=> r.cloud_provider \in Range(context.cloud_providers)
                   /\ Scored(r, 85)
            /\ \A r \in Range(all_rules.base) :
                   Stem(r.path) \notin CriticalBase => ~Selected(r)

\* A report has selected a language record and a cloud record and has left
\* out a framework record whose framework was not detected.
C6_Witness ==
    /\ pc = "sel_done"
    /\ rules_report.breakdown.language = 1
    /\ rules_report.breakdown.cloud = 1
    /\ rules_report.breakdown.framework = 0
    /\ Len(ParseIndex(index).framework) = 1

\* C7: selection_efficiency is "0%" when the catalog has no record, and the
\* call does not raise then; otherwise it is written with exactly one decimal
\* and a percent sign, its value is 100 * total_rules_selected /
\* total_rules_available rounded to the nearest tenth, and it lies between
\* 0.0 and 100.0.
C7_SelectionEfficiency ==
    /\ Len(CatalogEntries) = 0 => pc # "sel_raised"
    /\ pc = "sel_done" =>
        LET sel   == rules_report.total_rules_selected
            avail == rules_report.total_rules_available
            eff   == rules_report.selection_efficiency
            t     == PctTenths(eff)
            d     == t * avail - 1000 * sel
        IN  IF Len(CatalogEntries) = 0 THEN eff = "0%"
            ELSE /\ avail > 0
                 /\ eff = ToString(t \div 10) \o "." \o ToString(t % 10) \o "%"
                 /\ 0 <= t /\ t <= 1000
                 /\ 2 * d <= avail /\ -2 * d <= avail

\* A report has selected two of three records: 66.7%.
C7_Witness ==
    /\ pc = "sel_done"
    /\ rules_report.total_rules_available = 3
    /\ rules_report.total_rules_selected = 2
    /\ rules_report.selection_efficiency = "66.7%"

\* C8: for the same index, a context that has every language, framework and
\* provider of another selects at least as many rules, and its selection
\* efficiency is at least as high.
C8_SelectionMonotone ==
    pc = "sel_done" =>
        \A c2 \in SelContexts :
            Covers(c2, context) =>
                \E r2 \in {ReportFor(c2)} :
                    /\ r2.total_rules_selected >= rules_report.total_rules_selected
                    /\ PctTenths(r2.selection_efficiency)
                           >= PctTenths(rules_report.selection_efficiency)

\* A report for a context without frameworks, of an index for which the same
\* context with a framework added selects more.
C8_Witness ==
    /\ pc = "sel_done"
    /\ context.frameworks = <<>>
    /\ \E c2 \in SelContexts :
           /\ c2.languages = context.languages
           /\ c2.cloud_providers = context.cloud_providers
           /\ c2.frameworks = <<"react">>
           /\ ReportFor(c2).total_rules_selected > rules_report.total_rules_selected

\* C9: total_rules_available is the number of entries of the index; for an
\* index with N base entries and no language, framework or cloud entry it
\* is N.
C9_TotalAvailable ==
    (pc = "sel_done" /\ index.exists) =>
        /\ rules_report.total_rules_available = Len(CatalogEntries)
        /\ Len(CatalogEntries) = Len(BaseEntries)
               => rules_report.total_rules_available = Len(BaseEntries)

\* A report of an index with entries in the base, language and cloud
\* categories.
C9_Witness ==
    /\ pc = "sel_done" /\ index.exists
    /\ Len(BaseEntries) = 1
    /\ Len(CatalogEntries) = 3
    /\ Len(ParseIndex(index).cloud) = 1
    /\ Len(ParseIndex(index).language) = 1

\* C10: without an index file parse_index returns the four buckets base,
\* language, framework and cloud, each empty, and raises nothing; the report
\* built on it has total_rules_available = 0 and total_rules_selected = 0.
C10_AbsentIndex ==
    ~index.exists =>
        /\ ParseIndex(index) = [base |-> <<>>, language |-> <<>>,
                                framework |-> <<>>, cloud |-> <<>>]
        /\ pc # "sel_raised"
        /\ pc = "sel_done" =>
               /\ rules_report.total_rules_available = 0
               /\ rules_report.total_rules_selected = 0

\* A report has been returned without an index file, for a context with
\* languages, a framework and a provider.
C10_Witness ==
    /\ pc = "sel_done" /\ ~index.exists
    /\ context.languages # <<>> /\ context.frameworks # <<>>
    /\ context.cloud_providers # <<>>

(***************************************************************************)
(* Properties of parse_index on malformed entries (SpecSel)                *)
(***************************************************************************)
\* C11 as stated: an index entry with neither a path key nor a file key makes
\* the loader fail; the call does not return, and no record with an empty
\* path is built from such an entry.
C11_MissingPathRejected ==
    (\E e \in Range(CatalogEntries) : ~Has(e, "path") /\ ~Has(e, "file")) =>
        /\ pc # "sel_done"
        /\ ParseIndex(index) = KeyError
               \/ \A r \in Range(ParseIndex(index).base) : r.path # ""

(***************************************************************************)
(* MECEAnalyzer(repo_root).analyze() called on its own (SpecMece)          *)
(***************************************************************************)
CallAnalyze ==
    /\ pc = "mece_call"
    /\ \E map \in Analyze(corpus) :
           IF Has(map, "raised")
           THEN pc' = "mece_raised" /\ UNCHANGED mece_map
           ELSE pc' = "mece_done" /\ mece_map' = map
    /\ UNCHANGED <<config, fs, index, agents_md, corpus, archive, context,
                   rules_report, accuracy, disposition, result>>

InitMece ==
    /\ pc = "mece_call"
    /\ corpus \in Corpora
    /\ config = [depth |-> "standard", enable_citations |-> TRUE,
                 enable_beads_generation |-> FALSE, enable_pr_suggestions |-> TRUE,
                 max_tasks_per_finding |-> 3]
    /\ fs = {}
    /\ index = [exists |-> FALSE, json |-> <<>>]
    /\ agents_md = NoAgents
    /\ archive = NoArchive
    /\ context = None
    /\ rules_report = None
    /\ mece_map = None
    /\ accuracy = None
    /\ disposition = None
    /\ result = None

NextMece == CallAnalyze

SpecMece == InitMece /\ [][NextMece]_vars

(***************************************************************************)
(* Properties of MECEAnalyzer.analyze (SpecMece)                           *)
(***************************************************************************)
\* The analysis with a given path.
AnalysisOf(analyses, path) ==
    analyses[CHOOSE i \in DOMAIN analyses : analyses[i].file_path = path]

QualifyingPairs(analyses) ==
    {p \in ComparedPairs(analyses) :
        /\ PreFilter(analyses[p[1]], analyses[p[2]])
        /\ 10 * OverlapScore(analyses[p[1]], analyses[p[2]]).num
               > 3 * OverlapScore(analyses[p[1]], analyses[p[2]]).den}

\* Whether a finding is the one of the pair p.
FindingOf(analyses, r, p) ==
    r.file1 = analyses[p[1]].file_path /\ r.file2 = analyses[p[2]].file_path

\* C13 as stated: when analyze returns, the findings are those of the compared
\* pairs that share more than three keywords or more than two topics and
\* whose score is more than 0.3: total_overlaps counts these pairs, every
\* finding returned is the finding of one of them, and when all findings are
\* returned each of these pairs has its finding.
C13_FindingIffQualifies ==
    pc = "mece_done" =>
        LET body(analyses, qualifying) ==
                /\ mece_map.total_overlaps = Cardinality(qualifying)
                /\ \A r \in Range(mece_map.overlap_reports) :
                       \E p \in qualifying : FindingOf(analyses, r, p)
                /\ mece_map.total_overlaps <= TopOverlaps =>
                       \A p \in qualifying :
                           \E r \in Range(mece_map.overlap_reports) :
                               FindingOf(analyses, r, p)
        IN  body(AnalyzeAllFiles(corpus), QualifyingPairs(AnalyzeAllFiles(corpus)))

\* The findings of the compared pairs _find_overlaps reports.
AllFindings(analyses) ==
    {OverlapReport(analyses[p[1]], analyses[p[2]]) :
        p \in {q \in ComparedPairs(analyses) :
                  /\ PreFilter(analyses[q[1]], analyses[q[2]])
                  /\ ExceedsThreshold(OverlapScore(analyses[q[1]], analyses[q[2]]))}}

\* C14: when analyze returns, total_overlaps is the number of findings, and
\* overlap_reports has min(10, total_overlaps) of them, no finding twice, in
\* non-increasing order of overlap_score; no finding left out has a greater
\* overlap_score than one that is in.
C14_TopTenByScore ==
    pc = "mece_done" =>
        LET body(findings, reports) ==
                /\ mece_map.total_overlaps = Cardinality(findings)
                /\ Len(reports) = IF mece_map.total_overlaps < 10
                                  THEN mece_map.total_overlaps ELSE 10
                /\ Range(reports) \subseteq findings
                /\ Cardinality(Range(reports)) = Len(reports)
                /\ \A i, j \in DOMAIN reports :
                       i < j => reports[i].overlap_score >= reports[j].overlap_score
                /\ \A f \in findings \ Range(reports) :
                       \A r \in Range(reports) : f.overlap_score <= r.overlap_score
        IN  body(AllFindings(AnalyzeAllFiles(corpus)), mece_map.overlap_reports)

\* analyze has returned ten of more than ten findings, of several scores, and
\* a finding left out has a smaller score than one returned.
C14_Witness ==
    /\ pc = "mece_done"
    /\ mece_map.total_overlaps > 10
    /\ Len(mece_map.overlap_reports) = 10
    /\ mece_map.overlap_reports[1].overlap_score
           > mece_map.overlap_reports[10].overlap_score
    /\ \E f \in AllFindings(AnalyzeAllFiles(corpus)) :
           f.overlap_score < mece_map.overlap_reports[10].overlap_score

\* Whether a string starts with a prefix.
StartsWith(s, prefix) ==
    Len(s) >= Len(prefix) /\ SubSeq(s, 1, Len(prefix)) = prefix

\* C15: analyze of a corpus without a document, its directories present or
\* not, returns: files_analyzed = 0, no overlap, a gap of category base for
\* each of the nine expected base topics, and a score whose number is
\* max(0, 100 - 3 * total_gaps).
C15_EmptyCorpus ==
    CorpusFiles(corpus) = <<>> =>
        /\ pc # "mece_raised"
        /\ pc = "mece_done" =>
               /\ mece_map.files_analyzed = 0
               /\ mece_map.total_overlaps = 0
               /\ mece_map.overlap_reports = <<>>
               /\ Len(ExpectedBaseTopics) = 9
               /\ \A e \in Range(ExpectedBaseTopics) :
                      \E g \in Range(mece_map.gap_reports) :
                          g.category = "base" /\ g.missing_topics = <<e>>
               /\ mece_map.total_gaps = Len(mece_map.gap_reports)
               /\ StartsWith(mece_map.summary.mece_score,
                             ToString(Max(0, 100 - 3 * mece_map.total_gaps)) \o "%")

\* analyze has returned for a corpus whose directories are there and hold no
\* document.
C15_Witness ==
    /\ pc = "mece_done"
    /\ CorpusFiles(corpus) = <<>>
    /\ corpus.base.exists /\ corpus.languages.exists /\ corpus.cloud.exists
    /\ mece_map.total_gaps > 0

\* The gaps of a report with a given category that miss exactly one given topic.
GapsFor(report, category, topic) ==
    {i \in DOMAIN report.gap_reports :
        /\ report.gap_reports[i].category = category
        /\ report.gap_reports[i].missing_topics = <<topic>>}

\* C16 as stated: when analyze returns, each of the nine expected base topics
\* has one gap of category base if it is a substring of no member of the union
\* of the topic sets of the base documents, and none if it is a substring of
\* a member.
C16_BaseGapIffInNoMember ==
    pc = "mece_done" =>
        LET body(base_topics) ==
                \A e \in Range(ExpectedBaseTopics) :
                    Cardinality(GapsFor(mece_map, "base", e))
                        = IF \E member \in base_topics : Contains(member, e)
                          THEN 0 ELSE 1
        IN  body(TopicsOf(AnalyzeAllFiles(corpus), "base"))

\* The gaps of a report with a given category.
GapsOf(report, category) ==
    {i \in DOMAIN report.gap_reports : report.gap_reports[i].category = category}

C18_FrameworkAndCloudGaps ==
    pc = "mece_done" =>
        LET body(analyses) ==
                /\ mece_map.total_gaps = Len(mece_map.gap_reports)
                /\ \A kind \in {<<"framework", ExpectedFrameworkTopics>>,
                                <<"cloud", ExpectedCloudTopics>>} :
                       \A entry \in Range(kind[2]) :
                           IF ~\E i \in DOMAIN analyses :
                                   analyses[i].category = kind[1] \o "/" \o entry.key
                           THEN GapsOf(mece_map, kind[1] \o "/" \o entry.key) # {}
                           ELSE \A e \in Range(entry.topics) :
                                    (\A order \in Orders(TopicsOf(analyses,
                                             kind[1] \o "/" \o entry.key)) :
                                         ~TopicFound(e, order))
                                        => GapsFor(mece_map, kind[1] \o "/" \o entry.key, e) # {}
        IN  body(AnalyzeAllFiles(corpus))

(***************************************************************************)
(* MECEAnalyzer._calculate_mece_score called on its own (SpecScore)        *)
(***************************************************************************)
\* Largest numbers of overlaps, gaps and files the score is computed for.
MaxOverlaps == 15
MaxGaps == 25
MaxFiles == 2

\* The call: mece_map holds the three arguments, then also the string returned.
CallCalculateMeceScore ==
    /\ pc = "score_call"
    /\ mece_map' = [mece_map EXCEPT !.summary =
           [mece_score |-> CalculateMeceScore(mece_map.total_overlaps,
                                              mece_map.total_gaps,
                                              mece_map.files_analyzed)]]
    /\ pc' = "score_done"
    /\ UNCHANGED <<config, fs, index, agents_md, corpus, archive, context,
                   rules_report, accuracy, disposition, result>>

InitScore ==
    /\ pc = "score_call"
    /\ \E o \in 0..MaxOverlaps, g \in 0..MaxGaps, n \in 0..MaxFiles :
           mece_map = [files_analyzed |-> n, total_overlaps |-> o, total_gaps |-> g,
                       summary |-> None]
    /\ corpus = [base |-> NoDir, languages |-> NoFolders, frameworks |-> NoFolders,
                 cloud |-> NoFolders]
    /\ config = [depth |-> "standard", enable_citations |-> TRUE,
                 enable_beads_generation |-> FALSE, enable_pr_suggestions |-> TRUE,
                 max_tasks_per_finding |-> 3]
    /\ fs = {}
    /\ index = [exists |-> FALSE, json |-> <<>>]
    /\ agents_md = NoAgents
    /\ archive = NoArchive
    /\ context = None
    /\ rules_report = None
    /\ accuracy = None
    /\ disposition = None
    /\ result = None

NextScore == CallCalculateMeceScore

SpecScore == InitScore /\ [][NextScore]_vars

Markers ==
    {"requirements.txt", "pyproject.toml", "package.json", "tsconfig.json",
     "go.mod", "pom.xml", "build.gradle", "Cargo.toml", "terraform",
     "vercel.json", ".github/workflows", "Dockerfile", "README.md"}

CallDetectContext ==
    /\ pc = "ctx_call"
    /\ context' = DetectContext(fs)
    /\ pc' = "ctx_done"
    /\ UNCHANGED <<config, fs, index, agents_md, corpus, archive, rules_report,
                   mece_map, accuracy, disposition, result>>

InitCtx ==
    /\ pc = "ctx_call"
    /\ fs \in SUBSET Markers
    /\ context = None
    /\ corpus = [base |-> NoDir, languages |-> NoFolders, frameworks |-> NoFolders,
                 cloud |-> NoFolders]
    /\ config = [depth |-> "standard", enable_citations |-> TRUE,
                 enable_beads_generation |-> FALSE, enable_pr_suggestions |-> TRUE,
                 max_tasks_per_finding |-> 3]
    /\ index = [exists |-> FALSE, json |-> <<>>]
    /\ agents_md = NoAgents
    /\ archive = NoArchive
    /\ rules_report = None
    /\ mece_map = None
    /\ accuracy = None
    /\ disposition = None
    /\ result = None

NextCtx == CallDetectContext

SpecCtx == InitCtx /\ [][NextCtx]_vars

\* C20: the languages detected are decided by the marker files of the root:
\* python iff requirements.txt or pyproject.toml is there, go iff go.mod, java
\* iff pom.xml or build.gradle, rust iff Cargo.toml; with package.json
\* exactly one of javascript and typescript, typescript iff tsconfig.json is
\* there, and neither without package.json; no language twice. A root with
\* only package.json and tsconfig.json gives typescript alone, and an empty
\* root gives no language, no framework and no cloud provider.
C20_LanguageMarkers ==
    pc = "ctx_done" =>
        LET has(name) == name \in Range(context.languages)
        IN  /\ has("python") <=> ("requirements.txt" \in fs \/ "pyproject.toml" \in fs)
            /\ has("go") <=> "go.mod" \in fs
            /\ has("java") <=> ("pom.xml" \in fs \/ "build.gradle" \in fs)
            /\ has("rust") <=> "Cargo.toml" \in fs
            /\ has("typescript") <=> ("package.json" \in fs /\ "tsconfig.json" \in fs)
            /\ has("javascript") <=> ("package.json" \in fs /\ "tsconfig.json" \notin fs)
            /\ ~(has("typescript") /\ has("javascript"))
            /\ Range(context.languages)
                   \subseteq {"python", "javascript", "typescript", "go", "java", "rust"}
            /\ Cardinality(Range(context.languages)) = Len(context.languages)
            /\ fs = {"package.json", "tsconfig.json"} =>
                   context.languages = <<"typescript">>
            /\ fs = {} => /\ context.languages = <<>>
                          /\ context.frameworks = <<>>
                          /\ context.cloud_providers = <<>>

\* Detection has run on a root that holds package.json and tsconfig.json and
\* nothing else.
C20_Witness ==
    /\ pc = "ctx_done"
    /\ fs = {"package.json", "tsconfig.json"}
    /\ context.languages = <<"typescript">>

\* C21 as stated: the maturity detected is "prototype" without a CI workflow
\* directory, with or without a container build file, "pre-production" with
\* the directory and no container build file, "production" with both; a root
\* with only requirements.txt gives the languages python and the maturity
\* "prototype".
C21_MaturityLadderAsStated ==
    pc = "ctx_done" =>
        /\ context.maturity =
               IF ".github/workflows" \notin fs THEN "prototype"
               ELSE IF "Dockerfile" \notin fs THEN "pre-production"
               ELSE "production"
        /\ fs = {"requirements.txt"} =>
               context.languages = <<"python">> /\ context.maturity = "prototype"

\* C21 with the name the code gives the lowest tier: the maturity detected is
\* "mvp" without a CI workflow directory, with or without a container build
\* file, "pre-production" with the directory and no container build file,
\* "production" with both; a root with only requirements.txt gives the
\* languages python and the maturity "mvp".
C21_MaturityLadder ==
    pc = "ctx_done" =>
        /\ context.maturity =
               IF ".github/workflows" \notin fs THEN "mvp"
               ELSE IF "Dockerfile" \notin fs THEN "pre-production"
               ELSE "production"
        /\ fs = {"requirements.txt"} =>
               context.languages = <<"python">> /\ context.maturity = "mvp"

\* Detection has run on a root with a container build file and no CI workflow
\* directory.
C21_Witness ==
    /\ pc = "ctx_done"
    /\ "Dockerfile" \in fs
    /\ ".github/workflows" \notin fs
    /\ context.maturity = "mvp"

\* The files of a corpus that can be read.
ReadableFiles(c) == SelectSeq(CorpusFiles(c), LAMBDA f : f.file.readable)

\* C22 as stated: a document that cannot be read does not make analyze fail:
\* analyze returns, its report covers the documents that can be read, and it
\* records the documents skipped, each with its path.
C22_UnreadableIsolated ==
    ~CorpusReadable(corpus) =>
        /\ pc # "mece_raised"
        /\ pc = "mece_done" =>
               /\ mece_map.files_analyzed = Len(ReadableFiles(corpus))
               /\ Has(mece_map, "skipped")

\* C23 as stated: overlap detection, gap detection and score computation do
\* not fail on the profiles of documents that can be read, a document that
\* matches no keyword among them: analyze does not raise.
C23_StagesCannotFail ==
    CorpusReadable(corpus) => pc # "mece_raised"

\* The pairs of base documents that both have the headings Testing and
\* Security and have at least four keywords in common.
ScenarioPairs(analyses) ==
    {p \in (DOMAIN analyses) \X (DOMAIN analyses) :
        /\ p[1] < p[2]
        /\ analyses[p[1]].category = "base" /\ analyses[p[2]].category = "base"
        /\ {"Testing", "Security"} \subseteq Range(analyses[p[1]].headings)
        /\ {"Testing", "Security"} \subseteq Range(analyses[p[2]].headings)
        /\ Cardinality(CommonKeywords(analyses[p[1]], analyses[p[2]])) >= 4}

\* The findings returned for a pair of documents, in either order.
ReportsBetween(report, a1, a2) ==
    {i \in DOMAIN report.overlap_reports :
        {report.overlap_reports[i].file1, report.overlap_reports[i].file2}
            = {a1.file_path, a2.file_path}}

\* C24 as stated: when analyze returns all its findings, two base documents
\* that both have the headings Testing and Security and at least four
\* keywords in common have exactly one finding between them, and the finding
\* has category = "base".
C24_ScenarioCAsStated ==
    (pc = "mece_done" /\ mece_map.total_overlaps <= TopOverlaps) =>
        LET body(analyses) ==
                \A p \in ScenarioPairs(analyses) :
                    /\ Cardinality(ReportsBetween(mece_map, analyses[p[1]],
                                                  analyses[p[2]])) = 1
                    /\ \A i \in ReportsBetween(mece_map, analyses[p[1]], analyses[p[2]]) :
                           /\ Has(mece_map.overlap_reports[i], "category")
                           /\ mece_map.overlap_reports[i].category = "base"
        IN  body(AnalyzeAllFiles(corpus))

\* C24 as the code has it: when analyze returns all its findings, two base
\* documents that both have the headings Testing and Security and at least
\* four keywords in common have exactly one finding between them when their
\* score is more than 0.3 and none otherwise; the finding has the fields
\* file1, file2, overlap_score, common_keywords and common_topics, no
\* category, and names the two files of base/.
C24_ScenarioC ==
    (pc = "mece_done" /\ mece_map.total_overlaps <= TopOverlaps) =>
        LET body(analyses) ==
                \A p \in ScenarioPairs(analyses) :
                    /\ Cardinality(ReportsBetween(mece_map, analyses[p[1]],
                                                  analyses[p[2]]))
                           = IF ExceedsThreshold(OverlapScore(analyses[p[1]],
                                                              analyses[p[2]]))
                             THEN 1 ELSE 0
                    /\ \A i \in ReportsBetween(mece_map, analyses[p[1]], analyses[p[2]]) :
                           /\ DOMAIN mece_map.overlap_reports[i]
                                  = {"file1", "file2", "overlap_score",
                                     "common_keywords", "common_topics"}
                           /\ StartsWith(mece_map.overlap_reports[i].file1, "base/")
                           /\ StartsWith(mece_map.overlap_reports[i].file2, "base/")
        IN  body(AnalyzeAllFiles(corpus))

\* analyze has returned one finding for two base documents with the headings
\* Testing and Security and four keywords in common.
C24_Witness ==
    /\ pc = "mece_done"
    /\ mece_map.total_overlaps = 1
    /\ LET body(analyses) ==
               \E p \in ScenarioPairs(analyses) :
                   Cardinality(ReportsBetween(mece_map, analyses[p[1]],
                                              analyses[p[2]])) = 1
       IN  body(AnalyzeAllFiles(corpus))

(***************************************************************************)
(* Properties of _calculate_mece_score at the values of its test           *)
(* (SpecScore)                                                             *)
(***************************************************************************)
\* C25 as stated: the score returned for 10 overlaps and 10 gaps is labelled
\* "Needs Improvement".
C25_TenOverlapsTenGaps ==
    (pc = "score_done" /\ mece_map.total_overlaps = 10 /\ mece_map.total_gaps = 10)
        => Contains(mece_map.summary.mece_score, "Needs Improvement")

\* C26 as stated: the score returned for 2 overlaps and 1 gap is labelled
\* "Good" or "Fair".
C26_TwoOverlapsOneGap ==
    (pc = "score_done" /\ mece_map.total_overlaps = 2 /\ mece_map.total_gaps = 1)
        => \/ Contains(mece_map.summary.mece_score, "Good")
           \/ Contains(mece_map.summary.mece_score, "Fair")

(***************************************************************************)
(* Order of the stages of AuditAgent.run (FairSpec)                        *)
(***************************************************************************)
\* Every step of a run leaves a stage for the one that follows it, or for the
\* exception the stage raises; the step of rule selection is made with the
\* context that detection returned for the repository, and passes it to the
\* selection unchanged.
StagesInOrder ==
    [][/\ pc' = NextStage(pc) \/ (pc' = "raised" /\ pc \in {"rules_report", "mece_map"})
       /\ pc = "rules_report" =>
              /\ context = DetectContext(fs)
              /\ context' = context
              /\ pc' = "mece_map" =>
                     rules_report' = GenerateRulesReport(index, agents_md, context)]_vars

\* The result is there only when the run is over, every stage behind it.
ResultOnlyAtEnd == [](result # None => pc = "done")

RECURSIVE IsSubsequence(_, _)
IsSubsequence(sub, seq) ==
    IF sub = <<>> THEN TRUE
    ELSE IF seq = <<>> THEN FALSE
    ELSE IF Head(sub) = Head(seq) THEN IsSubsequence(Tail(sub), Tail(seq))
    ELSE IsSubsequence(sub, Tail(seq))

\* The records of the catalog: base, language, framework, cloud.
CatalogRecords(all_rules) ==
    all_rules.base \o all_rules.language \o all_rules.framework \o all_rules.cloud

\* C28: in every selection report the selected rules are records of the
\* catalog, each taken at most once (an entry listed twice is two records);
\* total_rules_selected is at most total_rules_available; the four counts of
\* the breakdown add up to total_rules_selected; and selection_reasoning has
\* one entry for each selected rule, in the same order.
C28_ReportShape ==
    pc = "sel_done" =>
        /\ IsSubsequence(rules_report.selected_rules, CatalogRecords(ParseIndex(index)))
        /\ rules_report.total_rules_selected = Len(rules_report.selected_rules)
        /\ rules_report.total_rules_selected <= rules_report.total_rules_available
        /\ rules_report.breakdown.base + rules_report.breakdown.language
               + rules_report.breakdown.framework + rules_report.breakdown.cloud
               = rules_report.total_rules_selected
        /\ Len(rules_report.selection_reasoning) = Len(rules_report.selected_rules)
        /\ \A i \in DOMAIN rules_report.selected_rules :
               rules_report.selection_reasoning[i].rule
                   = rules_report.selected_rules[i].name

\* A report that selects one of two rules of a language and both copies of a
\* base entry listed twice.
C28_Witness ==
    /\ pc = "sel_done"
    /\ rules_report.breakdown.base = 2
    /\ rules_report.selected_rules[1] = rules_report.selected_rules[2]
    /\ rules_report.breakdown.language > 0
    /\ rules_report.total_rules_selected < rules_report.total_rules_available

(***************************************************************************)
(* Range of the score of a finding (SpecMece)                              *)
(***************************************************************************)
\* C29 as stated: the overlap_score of every finding, the value rounded to
\* two decimals, is more than 0.3 and at most 1.
C29_StoredScoreAboveThreshold ==
    pc = "mece_done" =>
        \A f \in AllFindings(AnalyzeAllFiles(corpus)) \cup Range(mece_map.overlap_reports) :
            f.overlap_score > 30 /\ f.overlap_score <= 100

\* C29 with the rounding taken into account: the overlap_score of every
\* finding, the value rounded to two decimals, is at least 0.3 and at most 1.
C29_StoredScoreRange ==
    pc = "mece_done" =>
        \A f \in AllFindings(AnalyzeAllFiles(corpus)) \cup Range(mece_map.overlap_reports) :
            f.overlap_score >= 30 /\ f.overlap_score <= 100

\* analyze has returned a finding whose score is more than 3 / 10 and whose
\* overlap_score is 0.3, in a corpus that has another pair past the pre-filter
\* or not.
C29_Witness ==
    /\ pc = "mece_done"
    /\ \E r \in Range(mece_map.overlap_reports) : r.overlap_score = 30
    /\ LET body(analyses) ==
               \E p \in ComparedPairs(analyses) :
                   /\ PreFilter(analyses[p[1]], analyses[p[2]])
                   /\ 10 * OverlapScore(analyses[p[1]], analyses[p[2]]).num
                          > 3 * OverlapScore(analyses[p[1]], analyses[p[2]]).den
       IN  body(AnalyzeAllFiles(corpus))

(***************************************************************************)
(* Base topics named by a file or a heading (SpecMece)                     *)
(***************************************************************************)
\* The documents of base/.
BaseFiles(c) == SelectSeq(CorpusFiles(c), LAMBDA f : f.category = "base")

\* A base document is named after the topic, or has a heading that is the
\* topic once lower-cased, stripped and rid of its punctuation.
NamedByBaseDocument(c, topic) ==
    \E i \in DOMAIN BaseFiles(c) :
        LET f == BaseFiles(c)[i].file
        IN  \/ Lower(Stem(f.name)) = topic
            \/ \E h \in DOMAIN f.headings :
                   StripPunctuation(Strip(Lower(f.headings[h]))) = topic

\* C30 as stated: when analyze returns, an expected base topic that names a
\* base document, or is a normalized heading of one, has no base gap; and an
\* expected base topic without a base gap is contained in one topic string of
\* a base document.
C30_NamedTopicCoveredByOneString ==
    pc = "mece_done" =>
        LET body(base_topics) ==
                \A e \in Range(ExpectedBaseTopics) :
                    /\ NamedByBaseDocument(corpus, e) => GapsFor(mece_map, "base", e) = {}
                    /\ GapsFor(mece_map, "base", e) = {} =>
                           \E member \in base_topics :
                               \/ Contains(member, e)
                               \/ Contains(member, HyphensToSpaces(e))
        IN  body(TopicsOf(AnalyzeAllFiles(corpus), "base"))

====
